---------------------------- MODULE Spec2Model ----------------------------
(***************************************************************************)
(* Put-call-parity arbitrage detection and execution-cost engine           *)
(* (src/app.py, src/src/decision_engine.py).                               *)
(*                                                                         *)
(* Numbers.  The program computes in IEEE doubles; the model computes in   *)
(* fixed point, every division rounding down:                              *)
(*   prices and money   in 1/PriceScale of a currency unit (cents),        *)
(*   rates              in 1/RateScale (basis points),                     *)
(*   time T             in 1/TDen of a year (half days), T = days/365,     *)
(*   slippage percent   in 1/PctScale of a percent,                        *)
(*   roi, annualized    in 1/RoiScale of a percent,                        *)
(*   days to expiry     in 1/DayScale of a day,                            *)
(*   logarithms         in 1/LnScale.                                      *)
(* A float is a tuple: <<v>> is the number v, << >> is NaN.  An optional   *)
(* value (None or a value) is a tuple in the same way.                     *)
(***************************************************************************)
EXTENDS Integers, Sequences, FiniteSets, TLC

PriceScale == 100
RateScale == 10000
TDen == 730
PctScale == 10
RoiScale == 100
LnScale == 100000
DayScale == 2

\* ------------------------------------------------------------ floats
NaN == << >>
F(v) == <<v>>
IsNaN(x) == x = NaN
V(x) == x[1]

None == << >>
Some(x) == <<x>>

FSub(a, b) == IF IsNaN(a) \/ IsNaN(b) THEN NaN ELSE F(V(a) - V(b))
\* comparisons with NaN are false
FGt(a, b) == ~IsNaN(a) /\ ~IsNaN(b) /\ V(a) > V(b)
FLt(a, b) == ~IsNaN(a) /\ ~IsNaN(b) /\ V(a) < V(b)
FLe(a, b) == ~IsNaN(a) /\ ~IsNaN(b) /\ V(a) <= V(b)

Abs(x) == IF x < 0 THEN -x ELSE x

\* floor(a * b / d) for d > 0, without forming a * b
MulDiv(a, b, d) == (a \div d) * b + ((a % d) * b) \div d
\* the same for a of either sign, rounding toward zero on the magnitude
SMulDiv(a, b, d) == IF a < 0 THEN -MulDiv(-a, b, d) ELSE MulDiv(a, b, d)

\* np.log / math.log of the ratio n / k (n > 0, k > 0), in 1/LnScale.
\* ln(n/k) = 2 atanh((n-k)/(n+k)), the series taken on |z| up to z^7, after
\* the ratio is brought into [2/3, 3/2] by factors of 2 (ln 2 = 0.69315).
AtanhSeries(z) ==
    LET z2 == (z * z) \div LnScale
        t3 == (z * z2) \div LnScale
        t5 == (t3 * z2) \div LnScale
        t7 == (t5 * z2) \div LnScale
    IN  z + t3 \div 3 + t5 \div 5 + t7 \div 7

LnCore(n, k) ==
    LET d == n - k
        z == (Abs(d) * LnScale) \div (n + k)
    IN  IF d < 0 THEN -(2 * AtanhSeries(z)) ELSE 2 * AtanhSeries(z)

RECURSIVE LnRatio(_, _)
LnRatio(n, k) ==
    IF 3 * n < 2 * k THEN LnRatio(2 * n, k) - 69315
    ELSE IF 2 * n > 3 * k THEN LnRatio(n, 2 * k) + 69315
    ELSE LnCore(n, k)

\* np.exp(x), x in 1/RateScale, result in 1/RateScale (Taylor series to x^5)
Exp(x) ==
    LET t2 == SMulDiv(x, x, RateScale)
        t3 == SMulDiv(t2, x, RateScale)
        t4 == SMulDiv(t3, x, RateScale)
        t5 == SMulDiv(t4, x, RateScale)
    IN  RateScale + x + t2 \div 2 + t3 \div 6 + t4 \div 24 + t5 \div 120


\* ------------------------------------------------------------ bounds
\* rows in a fetched quote batch
MaxRows == 2
\* contracts of a trade
MaxContracts == 10

\* ------------------------------------------------------------ state
VARIABLES
    option_data,      \* None, or the fetched quote batch: a sequence of quotes
    spot_price_data,  \* the underlying's spot at fetch time
    surface_data,     \* None, or the surface rows built from the batch
    input_risk_free_rate, \* the benchmark rate given to the solver
    input_arb_threshold,  \* the threshold given to the solver
    arbitrage_data,   \* None, or the opportunities of analyze_arbitrage
    chain_signals,    \* None, or the "signals" of analyze_chain
    opp,              \* the opportunity row given to the cost model
    calc_contracts,   \* contract count given to the cost model
    calc_commission,  \* commission per leg given to the cost model
    calc_slippage_pct,\* slippage percent given to the cost model
    calc_rate,        \* benchmark rate given to the cost model
    report,           \* None, or the report of calculate_execution_costs
    details,          \* None, or the breakdown of get_strategy_details
    plot,             \* None, or what surface_plot rendered
    pair,             \* the call/put pair given to the solvers
    implied_app,      \* None, or the result of app.compute_implied_r
    implied_engine,   \* None, or the result of decision_engine.compute_implied_r
    exchange_time_data, \* None, or the time of the last update shown
    now,              \* the clock: fetch requests made so far
    last_spot_fetch,  \* outcome of the latest spot request: "none", "ok", "failed"
    selected_arb_row, \* None, or the position of the selected opportunity
    shown_rows,       \* rows of the opportunity table the browser shows
    last_analysis,    \* outcome of the latest analysis request: "none", "ignored", "done"
    upstream,         \* what the data provider does when the worker asks it
    worker_response,  \* None, or the dict lseg_worker.fetch returned
    http_response,    \* None, or what requests.get gave the client
    client_result,    \* None, or the DataFrame get_option_chain returned
    pc                \* position of the computation

vars == <<option_data, spot_price_data, surface_data, input_risk_free_rate,
          input_arb_threshold, arbitrage_data, chain_signals, opp, calc_contracts,
          calc_commission, calc_slippage_pct, calc_rate, report, details, plot,
          pair, implied_app, implied_engine, exchange_time_data, now,
          last_spot_fetch, selected_arb_row, shown_rows, last_analysis,
          upstream, worker_response, http_response, client_result, pc>>

pipelineVars == <<option_data, spot_price_data, surface_data,
                  input_risk_free_rate, input_arb_threshold, arbitrage_data, chain_signals>>
execVars == <<opp, calc_contracts, calc_commission, calc_slippage_pct,
              calc_rate, report>>
viewVars == <<details, plot>>
solveVars == <<pair, implied_app, implied_engine>>
serverVars == <<exchange_time_data, now, last_spot_fetch, selected_arb_row,
                shown_rows, last_analysis>>
fetchVars == <<upstream, worker_response, http_response, client_result>>

SELL == "Sell synthetic, buy stock"
BUY == "Buy synthetic, short stock"
NOSIGNAL == "None"

\* ------------------------------------------------------------ Surface Builder
\* DataFrame.mean(axis=1) over the columns Bid, Ask: pandas skips NaN cells
\* (skipna=True), so the mean of one present value is that value and only the
\* mean of no value is NaN.
RowMean(bid, ask) ==
    IF ~IsNaN(bid) /\ ~IsNaN(ask) THEN F((V(bid) + V(ask)) \div 2)
    ELSE IF ~IsNaN(bid) THEN bid
    ELSE IF ~IsNaN(ask) THEN ask
    ELSE NaN

\* MidOf with a missing price filled with 0
MidOf_FillZero(q) ==
    LET m == RowMean(q.Bid, q.Ask)
    IN  IF IsNaN(m) THEN (IF IsNaN(q.Last) THEN F(0) ELSE q.Last) ELSE m

\* df["mid"] = mean of Bid, Ask; where that is NaN, Last
MidOf(q) ==
    LET m == RowMean(q.Bid, q.Ask)
    IN  IF IsNaN(m) THEN q.Last ELSE m

\* (ExpiryDate - now).dt.days / 365.0; ExpiryDate is held as its distance from
\* now in half days, .dt.days rounds down to whole days
YearsOf(expiry) == (expiry \div 2) * (TDen \div 365)

SurfaceRow(q, spot) ==
    [RIC |-> q.RIC, K |-> q.StrikePrice, T |-> YearsOf(q.ExpiryDate),
     mid |-> MidOf(q), S |-> spot, StrikePrice |-> q.StrikePrice,
     ExpiryDate |-> q.ExpiryDate, CallPutOption |-> q.CallPutOption]

build_surface_df(df, spot) == [i \in 1..Len(df) |-> SurfaceRow(df[i], spot)]

\* the caller's table after a build_surface_df that works on it in place: the
\* new columns are added to it
CallerFrameAfterBuild_InPlace(df, spot) ==
    [i \in 1..Len(df) |->
        [RIC |-> df[i].RIC, CallPutOption |-> df[i].CallPutOption,
         StrikePrice |-> df[i].StrikePrice, ExpiryDate |-> df[i].ExpiryDate,
         Bid |-> df[i].Bid, Ask |-> df[i].Ask, Last |-> df[i].Last,
         mid |-> MidOf(df[i]), T |-> YearsOf(df[i].ExpiryDate),
         K |-> df[i].StrikePrice, S |-> spot]]

\* the caller's table after build_surface_df(df, spot): the function rebinds
\* df to df.copy() first, every column it writes is a column of the copy
CallerFrameAfterBuild(df, spot) == df

\* ------------------------------------------------------------ Parity Solver
\* compute_implied_r guarding only the division by T: T = 0 instead of T <= 0
compute_implied_r_ZeroOnly(row) ==
    IF row.T = 0 \/ row.K <= 0 THEN NaN
    ELSE LET numerator == FSub(F(row.S), FSub(row.C_mid, row.P_mid))
         IN  IF FLe(numerator, F(0)) THEN NaN
             ELSE IF IsNaN(numerator) THEN NaN
             ELSE F((-(LnRatio(V(numerator), row.K)) * TDen)
                        \div (row.T * (LnScale \div RateScale)))

\* compute_implied_r without the factor 1 / T
compute_implied_r_NotAnnualized(row) ==
    IF row.T <= 0 \/ row.K <= 0 THEN NaN
    ELSE LET numerator == FSub(F(row.S), FSub(row.C_mid, row.P_mid))
         IN  IF FLe(numerator, F(0)) THEN NaN
             ELSE IF IsNaN(numerator) THEN NaN
             ELSE F(-(LnRatio(V(numerator), row.K)) \div (LnScale \div RateScale))

\* compute_implied_r with the sign of the logarithm lost
compute_implied_r_SignLost(row) ==
    IF row.T <= 0 \/ row.K <= 0 THEN NaN
    ELSE LET numerator == FSub(F(row.S), FSub(row.C_mid, row.P_mid))
         IN  IF FLe(numerator, F(0)) THEN NaN
             ELSE IF IsNaN(numerator) THEN NaN
             ELSE F((LnRatio(V(numerator), row.K) * TDen)
                        \div (row.T * (LnScale \div RateScale)))

\* app.compute_implied_r: NaN, or the implied rate in 1/RateScale
compute_implied_r(row) ==
    IF row.T <= 0 \/ row.K <= 0 THEN NaN
    ELSE LET numerator == FSub(F(row.S), FSub(row.C_mid, row.P_mid))
         IN  IF FLe(numerator, F(0)) THEN NaN
             ELSE IF IsNaN(numerator) THEN NaN   \* np.log(nan) is nan
             ELSE F((-(LnRatio(V(numerator), row.K)) * TDen)
                        \div (row.T * (LnScale \div RateScale)))

\* the join without the expiry date among its keys
JoinKey_NoExpiry(r) == <<r.K, r.T, r.S>>

JoinKey(r) == <<r.K, r.T, r.S, r.ExpiryDate>>

MergedRow(c, p) ==
    [K |-> c.K, T |-> c.T, S |-> c.S, ExpiryDate |-> c.ExpiryDate,
     RIC_call |-> c.RIC, RIC_put |-> p.RIC,
     mid_call |-> c.mid, mid_put |-> p.mid,
     C_mid |-> c.mid, P_mid |-> p.mid]

MatchesOf(c, puts) ==
    LET m == SelectSeq(puts, LAMBDA p : JoinKey(p) = JoinKey(c))
    IN  [i \in 1..Len(m) |-> MergedRow(c, m[i])]

\* calls.merge(puts, on=["K", "T", "S", "ExpiryDate"]): the inner join
RECURSIVE MergeRows(_, _)
MergeRows(calls, puts) ==
    IF calls = << >> THEN << >>
    ELSE MatchesOf(Head(calls), puts) \o MergeRows(Tail(calls), puts)

\* SignalOf with the two tests as an if / elif: the first that holds wins
SignalOf_FirstWins(r_diff, threshold) ==
    IF FGt(r_diff, F(threshold)) THEN SELL
    ELSE IF FLt(r_diff, F(-threshold)) THEN BUY
    ELSE NOSIGNAL

\* SignalOf with the comparisons not strict
SignalOf_NotStrict(r_diff, threshold) ==
    LET s1 == IF FLe(F(threshold), r_diff) THEN SELL ELSE NOSIGNAL
    IN  IF FLe(r_diff, F(-threshold)) THEN BUY ELSE s1

\* SignalOf with the two tests crossed
SignalOf_Crossed(r_diff, threshold) ==
    LET s1 == IF FLt(r_diff, F(-threshold)) THEN SELL ELSE NOSIGNAL
    IN  IF FGt(r_diff, F(threshold)) THEN BUY ELSE s1

\* signal column: None, then the two .loc assignments in program order
SignalOf(r_diff, threshold) ==
    LET s1 == IF FGt(r_diff, F(threshold)) THEN SELL ELSE NOSIGNAL
    IN  IF FLt(r_diff, F(-threshold)) THEN BUY ELSE s1

Analyzed(m, rf, threshold) ==
    LET r == compute_implied_r(m)
        d == FSub(r, F(rf))
    IN  [K |-> m.K, T |-> m.T, S |-> m.S, ExpiryDate |-> m.ExpiryDate,
         RIC_call |-> m.RIC_call, RIC_put |-> m.RIC_put,
         C_mid |-> m.C_mid, P_mid |-> m.P_mid,
         implied_r |-> r, r_diff |-> d, signal |-> SignalOf(d, threshold)]

analyze_arbitrage(surface_df, rf, threshold) ==
    LET calls == SelectSeq(surface_df, LAMBDA r : r.CallPutOption = "Call")
        puts == SelectSeq(surface_df, LAMBDA r : r.CallPutOption = "Put")
        merged == MergeRows(calls, puts)
        rows == [i \in 1..Len(merged) |-> Analyzed(merged[i], rf, threshold)]
    IN  SelectSeq(rows, LAMBDA r : r.signal # NOSIGNAL)

\* the caller's surface after an analyze_arbitrage that writes its columns to
\* the surface itself
CallerFrameAfterAnalyze_InPlace(surface_df, rf, threshold) ==
    [i \in 1..Len(surface_df) |->
        [RIC |-> surface_df[i].RIC, K |-> surface_df[i].K, T |-> surface_df[i].T,
         mid |-> surface_df[i].mid, S |-> surface_df[i].S,
         StrikePrice |-> surface_df[i].StrikePrice,
         ExpiryDate |-> surface_df[i].ExpiryDate,
         CallPutOption |-> surface_df[i].CallPutOption,
         signal |-> NOSIGNAL]]

\* the caller's surface after analyze_arbitrage(surface_df, ...): calls and
\* puts are copies of selections, merged is a new table, and every column
\* written is a column of merged
CallerFrameAfterAnalyze(surface_df, rf, threshold) == surface_df

\* ------------------------------------------------------------ decision_engine
\* decision_engine.compute_implied_r: None, or the implied rate in 1/RateScale
engine_compute_implied_r(S, C, P, K, T) ==
    IF T <= 0 THEN None
    ELSE LET numerator == FSub(F(S), FSub(C, P))
         IN  IF FLe(numerator, F(0)) \/ K <= 0 THEN None
             ELSE IF IsNaN(numerator) THEN None   \* math.log(nan) is nan: None
             ELSE Some((-(LnRatio(V(numerator), K)) * TDen)
                           \div (T * (LnScale \div RateScale)))

\* the records analyze_chain keeps: K and days_to_expiry present, days > 0
ChainValid(records) == SelectSeq(records, LAMBDA r : r.DAYS_TO_EXPIRY > 0)

ChainKey(r) == <<r.STRIKE_PRC, r.EXPIR_DATE>>

\* by_strike_expiry[key]: spot and days of the first record of the key, CALL
\* and PUT the last record of that type (None when there is none)
ChainLast(recs, key, type) ==
    LET idx == {i \in 1..Len(recs) : ChainKey(recs[i]) = key
                                       /\ recs[i].OPTION_TYPE = type}
    IN  IF idx = {} THEN None
        ELSE Some(recs[CHOOSE i \in idx : \A j \in idx : j <= i])

ChainGroup(recs, key) ==
    LET idx == {i \in 1..Len(recs) : ChainKey(recs[i]) = key}
        first == recs[CHOOSE i \in idx : \A j \in idx : i <= j]
    IN  [CALL |-> ChainLast(recs, key, "CALL"),
         PUT |-> ChainLast(recs, key, "PUT"),
         spot |-> first.TRDPRC_1,
         days_to_expiry |-> first.DAYS_TO_EXPIRY]

\* sorted(keys, key=lambda x: (x[1], x[0]))
ChainKeyLe(a, b) == a[2] < b[2] \/ (a[2] = b[2] /\ a[1] <= b[1])

RECURSIVE ChainSorted(_)
ChainSorted(keys) ==
    IF keys = {} THEN << >>
    ELSE LET m == CHOOSE k \in keys : \A o \in keys : ChainKeyLe(k, o)
         IN  <<m>> \o ChainSorted(keys \ {m})

\* ChainSignalOf with the comparisons not strict
ChainSignalOf_NotStrict(diff, threshold) ==
    IF diff >= threshold THEN SELL
    ELSE IF diff <= -threshold THEN BUY
    ELSE NOSIGNAL

\* the if / elif of analyze_chain
ChainSignalOf(diff, threshold) ==
    IF diff > threshold THEN SELL
    ELSE IF diff < -threshold THEN BUY
    ELSE NOSIGNAL

\* the row of one key: << >> when the key is skipped, else <<row>>
ChainRow(recs, key, base_rate, threshold) ==
    LET g == ChainGroup(recs, key)
    IN  IF g.CALL = None \/ g.PUT = None THEN << >>
        ELSE LET C == g.CALL[1].MID
                 P == g.PUT[1].MID
                 T == g.days_to_expiry * (TDen \div 365)
                 r == engine_compute_implied_r(g.spot, C, P, key[1], T)
             IN  <<[strike |-> key[1], expiry_date |-> key[2],
                    days_to_expiry |-> g.days_to_expiry,
                    call_mid |-> C, put_mid |-> P, implied_r |-> r,
                    signal |-> IF r = None THEN NOSIGNAL
                               ELSE ChainSignalOf(r[1] - base_rate, threshold)]>>

RECURSIVE ChainRows(_, _, _, _)
ChainRows(recs, keys, base_rate, threshold) ==
    IF keys = << >> THEN << >>
    ELSE ChainRow(recs, Head(keys), base_rate, threshold)
             \o ChainRows(recs, Tail(keys), base_rate, threshold)

\* analyze_chain(records, base_rate, threshold)["signals"]
analyze_chain(records, base_rate, threshold) ==
    LET recs == ChainValid(records)
        keys == ChainSorted({ChainKey(recs[i]) : i \in 1..Len(recs)})
        rows == ChainRows(recs, keys, base_rate, threshold)
    IN  SelectSeq(rows, LAMBDA r : r.signal # NOSIGNAL)

\* the contracts of a surface as the records analyze_chain reads
ChainRecords(surface_df) ==
    [i \in 1..Len(surface_df) |->
        [STRIKE_PRC |-> surface_df[i].K,
         DAYS_TO_EXPIRY |-> surface_df[i].T \div (TDen \div 365),
         EXPIR_DATE |-> surface_df[i].ExpiryDate,
         TRDPRC_1 |-> surface_df[i].S,
         OPTION_TYPE |-> IF surface_df[i].CallPutOption = "Call" THEN "CALL"
                         ELSE "PUT",
         MID |-> surface_df[i].mid]]

\* ------------------------------------------------------------ Execution Cost Model
get_strategy_summary(signal) ==
    IF signal = SELL THEN "Sell Call+Buy Put+Buy Stock"
    ELSE IF signal = BUY THEN "Buy Call+Sell Put+Short Stock"
    ELSE signal

\* ------------------------------------------------------------ lseg_worker, lseg_client
\* a row has STRIKE_PRC and EXPIR_DATE: df.dropna(subset=[...], how="any")
HasStrikeAndExpiry(raw) == ~IsNaN(raw.STRIKE_PRC) /\ raw.EXPIR_DATE # None

\* "CALL" if x.startswith("C") else ("PUT" if x.startswith("P") else None)
OptionTypeOf(ind) ==
    IF ind = "C" THEN Some("CALL") ELSE IF ind = "P" THEN Some("PUT") ELSE None

\* compute_T(exp_str): None when the date does not parse or lies in the past,
\* else the days to expiry (T is days / 365.0)
compute_T(exp) ==
    IF ~exp.parses THEN None
    ELSE IF exp.days < 0 THEN None
    ELSE Some(exp.days)

WorkerRecord(raw, spot) ==
    [STRIKE_PRC |-> raw.STRIKE_PRC, EXPIR_DATE |-> raw.EXPIR_DATE,
     PUTCALLIND |-> raw.PUTCALLIND, CF_BID |-> raw.CF_BID, CF_ASK |-> raw.CF_ASK,
     MID |-> RowMean(raw.CF_BID, raw.CF_ASK),
     OPTION_TYPE |-> OptionTypeOf(raw.PUTCALLIND),
     T_days |-> compute_T(raw.EXPIR_DATE[1]),
     T |-> IF compute_T(raw.EXPIR_DATE[1]) = None THEN None
           ELSE Some(compute_T(raw.EXPIR_DATE[1])[1] * (TDen \div 365)),
     SPOT |-> spot]

WorkerSuccess(rows) == [success |-> TRUE, data |-> rows, error |-> None]
WorkerFailure(text) == [success |-> FALSE, data |-> << >>, error |-> Some(text)]

\* fetch(symbol): everything runs inside try / except Exception
fetch(up) ==
    IF up.spot_raises THEN WorkerFailure("ek.get_data")
    ELSE IF up.chain_raises THEN WorkerFailure("ek.get_data")
    ELSE IF up.chain = None THEN WorkerSuccess(<< >>)
    ELSE IF up.chain[1] = << >> THEN WorkerSuccess(<< >>)
    ELSE LET df == SelectSeq(up.chain[1], HasStrikeAndExpiry)
         IN  \* zip(*[]) gives nothing to unpack into T_days, T
             IF df = << >> THEN WorkerFailure("not enough values to unpack")
             ELSE WorkerSuccess([i \in 1..Len(df) |-> WorkerRecord(df[i], up.spot)])

\* what requests.get(WORKER_URL, ..., timeout=10) gives while the worker holds
\* the response: it raises (timeout, connection), or an answer with a status
HttpOutcomes(response) ==
    { [raises |-> TRUE, status |-> 0, body |-> None],
      [raises |-> FALSE, status |-> 500, body |-> None],
      [raises |-> FALSE, status |-> 200, body |-> Some(response)] }

\* get_option_chain making a DataFrame of an empty row list too
get_option_chain_NoRowCheck(resp) ==
    IF resp.raises THEN None
    ELSE IF resp.status >= 400 THEN None
    ELSE IF resp.body = None THEN None
    ELSE IF ~resp.body[1].success THEN None
    ELSE Some(resp.body[1].data)

\* get_option_chain(symbol): None, or the DataFrame of the rows
get_option_chain(resp) ==
    IF resp.raises THEN None                       \* except Exception
    ELSE IF resp.status >= 400 THEN None            \* raise_for_status
    ELSE IF resp.body = None THEN None              \* not data
    ELSE IF ~resp.body[1].success THEN None
    ELSE IF resp.body[1].data = << >> THEN None     \* not rows
    ELSE Some(resp.body[1].data)

\* ------------------------------------------------------------ Strategy Classifier
EXECUTE_REVERSE == "Execute if net arbitrage exceeds 0.5% annualized after costs."
THIN_MARGIN == "Profit margin may be too thin after transaction costs."
EXECUTE_CONVERSION == "Execute if net arbitrage exceeds 1% annualized after costs, and stock is easy to borrow."
BORROW_CONCERN == "Consider borrowing costs and margin requirements before executing."

\* one line of "positions": what is done, with which instrument, at which price
Leg(side, instrument, price) ==
    [side |-> side, instrument |-> instrument, price |-> price]

\* abs(r_diff_pct) > bar, r_diff_pct = r_diff * 100 and bar both in percent;
\* the comparison is false for a NaN r_diff
AbsPctAbove(r_diff, bar) == ~IsNaN(r_diff) /\ Abs(V(r_diff) * 100) > bar

\* get_strategy_details with the bar of the first branch in both branches
get_strategy_details_OneBar(row) ==
    LET strategy_type == get_strategy_summary(row.signal)
    IN  IF strategy_type = "Sell Call+Buy Put+Buy Stock"
        THEN [type |-> "Reverse Conversion Arbitrage",
              positions |-> <<Leg("SELL", "Call", row.C_mid),
                              Leg("BUY", "Put", row.P_mid),
                              Leg("BUY", "underlying stock", F(row.S))>>,
              recommendation |->
                  IF AbsPctAbove(row.r_diff, RateScale \div 2)
                  THEN EXECUTE_REVERSE ELSE THIN_MARGIN]
        ELSE [type |-> "Conversion Arbitrage",
              positions |-> <<Leg("BUY", "Call", row.C_mid),
                              Leg("SELL", "Put", row.P_mid),
                              Leg("SELL (short)", "underlying stock", F(row.S))>>,
              recommendation |->
                  IF AbsPctAbove(row.r_diff, RateScale \div 2)
                  THEN EXECUTE_CONVERSION ELSE BORROW_CONCERN]

\* get_strategy_details(row): type, positions and recommendation of the dict
\* (summary, rationale, profit and risk are fixed or formatted texts)
get_strategy_details(row) ==
    LET strategy_type == get_strategy_summary(row.signal)
    IN  IF strategy_type = "Sell Call+Buy Put+Buy Stock"
        THEN [type |-> "Reverse Conversion Arbitrage",
              positions |-> <<Leg("SELL", "Call", row.C_mid),
                              Leg("BUY", "Put", row.P_mid),
                              Leg("BUY", "underlying stock", F(row.S))>>,
              recommendation |->
                  IF AbsPctAbove(row.r_diff, RateScale \div 2)
                  THEN EXECUTE_REVERSE ELSE THIN_MARGIN]
        ELSE [type |-> "Conversion Arbitrage",
              positions |-> <<Leg("BUY", "Call", row.C_mid),
                              Leg("SELL", "Put", row.P_mid),
                              Leg("SELL (short)", "underlying stock", F(row.S))>>,
              recommendation |->
                  IF AbsPctAbove(row.r_diff, RateScale)
                  THEN EXECUTE_CONVERSION ELSE BORROW_CONCERN]

\* ------------------------------------------------------------ Surface Interpolator
\* points of the grid along each axis: np.linspace(min, max, 30)
GridPoints == 30

NO_DATA == "No Data Available"
NO_ARBITRAGE_DATA == "No Arbitrage Data"
INSUFFICIENT_POINTS == "Insufficient data points for 3D surface. Need more strike/expiry combinations."
NEED_TWO_BY_TWO == "Need at least 2 different strikes and 2 different expiries for surface plot."
PLOT_ERROR == "Error creating surface plot"
FIGURE == "Implied Risk-Free Rate Surface"

\* np.unique of a column
UniqueOf(df, col) == { df[i][col] : i \in 1..Len(df) }
MinOf(xs) == CHOOSE x \in xs : \A y \in xs : x <= y
MaxOf(xs) == CHOOSE x \in xs : \A y \in xs : y <= x

\* the (K, T) points lie on one line (or are fewer than 3 distinct points):
\* the triangulation under interpolate.griddata(method='cubic') has no
\* simplex and raises
Collinear(df) ==
    \A i, j, k \in 1..Len(df) :
        (df[j].K - df[i].K) * (df[k].T - df[i].T)
            = (df[k].K - df[i].K) * (df[j].T - df[i].T)

\* what the view returns: an empty-state message or the figure, and the
\* K_grid x T_grid mesh it built on the way (None when it built none)
EmptyState(text) == [figure |-> FALSE, text |-> text, meshgrid |-> None]

MeshOf(df) ==
    [K_min |-> MinOf(UniqueOf(df, "K")), K_max |-> MaxOf(UniqueOf(df, "K")),
     T_min |-> MinOf(UniqueOf(df, "T")), T_max |-> MaxOf(UniqueOf(df, "T")),
     n |-> GridPoints]

\* surface_plot asking for fewer than 2 strikes and fewer than 2 expiries
surface_plot_BothShort(surf, arb_df) ==
    IF surf = None THEN EmptyState(NO_DATA)
    ELSE IF arb_df = None THEN EmptyState(NO_ARBITRAGE_DATA)
    ELSE IF arb_df[1] = << >> THEN EmptyState(NO_ARBITRAGE_DATA)
    ELSE IF Len(arb_df[1]) < 3 THEN EmptyState(INSUFFICIENT_POINTS)
    ELSE IF Cardinality(UniqueOf(arb_df[1], "K")) < 2
              /\ Cardinality(UniqueOf(arb_df[1], "T")) < 2
         THEN EmptyState(NEED_TWO_BY_TWO)
    ELSE IF Collinear(arb_df[1])
         THEN [figure |-> FALSE, text |-> PLOT_ERROR,
               meshgrid |-> Some(MeshOf(arb_df[1]))]
    ELSE [figure |-> TRUE, text |-> FIGURE, meshgrid |-> Some(MeshOf(arb_df[1]))]

\* surface_plot asking for 3 distinct strikes
surface_plot_ThreeStrikes(surf, arb_df) ==
    IF surf = None THEN EmptyState(NO_DATA)
    ELSE IF arb_df = None THEN EmptyState(NO_ARBITRAGE_DATA)
    ELSE IF arb_df[1] = << >> THEN EmptyState(NO_ARBITRAGE_DATA)
    ELSE IF Len(arb_df[1]) < 3 THEN EmptyState(INSUFFICIENT_POINTS)
    ELSE IF Cardinality(UniqueOf(arb_df[1], "K")) < 3
              \/ Cardinality(UniqueOf(arb_df[1], "T")) < 2
         THEN EmptyState(NEED_TWO_BY_TWO)
    ELSE IF Collinear(arb_df[1])
         THEN [figure |-> FALSE, text |-> PLOT_ERROR,
               meshgrid |-> Some(MeshOf(arb_df[1]))]
    ELSE [figure |-> TRUE, text |-> FIGURE, meshgrid |-> Some(MeshOf(arb_df[1]))]

\* surface_plot(): the checks in program order, then the mesh, then the
\* interpolation inside try / except
surface_plot(surf, arb_df) ==
    IF surf = None THEN EmptyState(NO_DATA)
    ELSE IF arb_df = None THEN EmptyState(NO_ARBITRAGE_DATA)
    ELSE IF arb_df[1] = << >> THEN EmptyState(NO_ARBITRAGE_DATA)
    ELSE IF Len(arb_df[1]) < 3 THEN EmptyState(INSUFFICIENT_POINTS)
    ELSE IF Cardinality(UniqueOf(arb_df[1], "K")) < 2
              \/ Cardinality(UniqueOf(arb_df[1], "T")) < 2
         THEN EmptyState(NEED_TWO_BY_TWO)
    ELSE IF Collinear(arb_df[1])
         THEN [figure |-> FALSE, text |-> PLOT_ERROR,
               meshgrid |-> Some(MeshOf(arb_df[1]))]
    ELSE [figure |-> TRUE, text |-> FIGURE, meshgrid |-> Some(MeshOf(arb_df[1]))]

\* ------------------------------------------------------------ Execution Cost Model (continued)
\* a / b of the program: a division by zero has no number for a result
DivByZero == <<0, 0>>
Div(a, b) == IF b = 0 THEN DivByZero ELSE F(a \div b)

\* a / b * 100 in 1/RoiScale of a percent, for b > 0: the quotient
\* floor(a * 100 * RoiScale / b), taken in steps that stay in range
PctOf(a, b) ==
    LET h == (a % b) * 100
    IN  (a \div b) * 100 * RoiScale + (h \div b) * RoiScale
           + ((h % b) * RoiScale) \div b

\* RoiOf guarded by capital_employed >= 0
RoiOf_GuardGE(theoretical_profit, capital_employed) ==
    IF capital_employed >= 0
    THEN IF capital_employed = 0 THEN DivByZero
         ELSE F(PctOf(theoretical_profit, capital_employed))
    ELSE F(0)

\* roi = (theoretical_profit / capital_employed * 100) if capital_employed > 0 else 0
RoiOf(theoretical_profit, capital_employed) ==
    IF capital_employed > 0
    THEN F(PctOf(theoretical_profit, capital_employed))
    ELSE F(0)

\* annualized_return = (roi * 365 / days_to_expiry) if days_to_expiry > 0 else 0
AnnualizedOf(roi, days_to_expiry) ==
    IF days_to_expiry > 0
    THEN IF roi = DivByZero THEN DivByZero
         ELSE Div(V(roi) * 365 * DayScale, days_to_expiry)
    ELSE F(0)

\* CostsOf charging the two option legs only
CostsOf_TwoLegs(commission, slippage_pct, total_notional) ==
    LET total_commission == commission * 2
        slippage_cost == MulDiv(total_notional, slippage_pct, 100 * PctScale)
    IN  [total_commission |-> total_commission,
         slippage_cost |-> slippage_cost,
         total_costs |-> total_commission + slippage_cost]

\* total_commission, slippage_cost, total_costs
CostsOf(commission, slippage_pct, total_notional) ==
    LET total_commission == commission * 3
        slippage_cost == MulDiv(total_notional, slippage_pct, 100 * PctScale)
    IN  [total_commission |-> total_commission,
         slippage_cost |-> slippage_cost,
         total_costs |-> total_commission + slippage_cost]

\* ReverseBranch growing the outflow at the rate gap instead of the benchmark
ReverseBranch_GrowAtGap(call_value, put_value, stock_value, strike_value, total_costs, rate_diff, T, risk_free_rate) ==
    LET option_net == call_value - put_value
        initial_outflow == stock_value - option_net + total_costs
        expiry_inflow == strike_value
        expected_outflow_with_interest ==
            SMulDiv(initial_outflow, Exp((rate_diff * T) \div TDen), RateScale)
    IN  [option_net |-> option_net,
         net_pnl |-> expiry_inflow - expected_outflow_with_interest,
         theoretical_profit |->
            MulDiv(MulDiv(strike_value, rate_diff, RateScale), T, TDen),
         required_margin |-> stock_value \div 2,
         capital_employed |-> initial_outflow,
         initial_cash |-> -initial_outflow,
         expiry_cash |-> expiry_inflow]

\* ReverseBranch with the signed initial cash flow as the capital employed
ReverseBranch_CapitalIsCash(call_value, put_value, stock_value, strike_value, total_costs, rate_diff, T, risk_free_rate) ==
    LET option_net == call_value - put_value
        initial_outflow == stock_value - option_net + total_costs
        expiry_inflow == strike_value
        expected_outflow_with_interest ==
            SMulDiv(initial_outflow, Exp((risk_free_rate * T) \div TDen), RateScale)
    IN  [option_net |-> option_net,
         net_pnl |-> expiry_inflow - expected_outflow_with_interest,
         theoretical_profit |->
            MulDiv(MulDiv(strike_value, rate_diff, RateScale), T, TDen),
         required_margin |-> stock_value \div 2,
         capital_employed |-> -initial_outflow,
         initial_cash |-> -initial_outflow,
         expiry_cash |-> expiry_inflow]

\* the branch of calculate_execution_costs taken for "Sell Call+Buy Put+Buy Stock"
ReverseBranch(call_value, put_value, stock_value, strike_value, total_costs, rate_diff, T, risk_free_rate) ==
    LET option_net == call_value - put_value
        initial_outflow == stock_value - option_net + total_costs
        expiry_inflow == strike_value
        expected_outflow_with_interest ==
            SMulDiv(initial_outflow, Exp((risk_free_rate * T) \div TDen), RateScale)
    IN  [option_net |-> option_net,
         net_pnl |-> expiry_inflow - expected_outflow_with_interest,
         theoretical_profit |->
            MulDiv(MulDiv(strike_value, rate_diff, RateScale), T, TDen),
         required_margin |-> stock_value \div 2,
         capital_employed |-> initial_outflow,
         initial_cash |-> -initial_outflow,
         expiry_cash |-> expiry_inflow]

\* ConversionBranch with the theoretical profit signed like the Reverse branch
ConversionBranch_Signed(call_value, put_value, stock_value, strike_value, total_costs, rate_diff, T, risk_free_rate) ==
    LET option_net == put_value - call_value
        initial_inflow == stock_value + option_net - total_costs
        expiry_outflow == strike_value
        expected_inflow_with_interest ==
            SMulDiv(initial_inflow, Exp((risk_free_rate * T) \div TDen), RateScale)
    IN  [option_net |-> option_net,
         net_pnl |-> expected_inflow_with_interest - expiry_outflow,
         theoretical_profit |->
            MulDiv(MulDiv(strike_value, rate_diff, RateScale), T, TDen),
         required_margin |-> (stock_value * 3) \div 2,
         capital_employed |-> (stock_value * 3) \div 2,
         initial_cash |-> initial_inflow,
         expiry_cash |-> -expiry_outflow]

\* ConversionBranch with the costs added to the inflow
ConversionBranch_CostsAdded(call_value, put_value, stock_value, strike_value, total_costs, rate_diff, T, risk_free_rate) ==
    LET option_net == put_value - call_value
        initial_inflow == stock_value + option_net + total_costs
        expiry_outflow == strike_value
        expected_inflow_with_interest ==
            SMulDiv(initial_inflow, Exp((risk_free_rate * T) \div TDen), RateScale)
    IN  [option_net |-> option_net,
         net_pnl |-> expected_inflow_with_interest - expiry_outflow,
         theoretical_profit |->
            MulDiv(MulDiv(strike_value, Abs(rate_diff), RateScale), T, TDen),
         required_margin |-> (stock_value * 3) \div 2,
         capital_employed |-> (stock_value * 3) \div 2,
         initial_cash |-> initial_inflow,
         expiry_cash |-> -expiry_outflow]

\* the else branch of calculate_execution_costs
ConversionBranch(call_value, put_value, stock_value, strike_value, total_costs, rate_diff, T, risk_free_rate) ==
    LET option_net == put_value - call_value
        initial_inflow == stock_value + option_net - total_costs
        expiry_outflow == strike_value
        expected_inflow_with_interest ==
            SMulDiv(initial_inflow, Exp((risk_free_rate * T) \div TDen), RateScale)
    IN  [option_net |-> option_net,
         net_pnl |-> expected_inflow_with_interest - expiry_outflow,
         theoretical_profit |->
            MulDiv(MulDiv(strike_value, Abs(rate_diff), RateScale), T, TDen),
         required_margin |-> (stock_value * 3) \div 2,
         capital_employed |-> (stock_value * 3) \div 2,
         initial_cash |-> initial_inflow,
         expiry_cash |-> -expiry_outflow]

calculate_execution_costs(row, contracts, commission, slippage_pct, risk_free_rate) ==
    LET multiplier == 100
        strike == row.K
        spot == row.S
        call_mid == V(row.C_mid)
        put_mid == V(row.P_mid)
        days_to_expiry == (row.T * 365 * DayScale) \div TDen
        T == row.T
        rate_diff == V(row.r_diff)
        strategy_type == get_strategy_summary(row.signal)
        call_value == call_mid * contracts * multiplier
        put_value == put_mid * contracts * multiplier
        stock_value == spot * contracts * multiplier
        strike_value == strike * contracts * multiplier
        costs == CostsOf(commission, slippage_pct,
                         call_value + put_value + stock_value)
        b == IF strategy_type = "Sell Call+Buy Put+Buy Stock"
             THEN ReverseBranch(call_value, put_value, stock_value, strike_value,
                                costs.total_costs, rate_diff, T, risk_free_rate)
             ELSE ConversionBranch(call_value, put_value, stock_value, strike_value,
                                   costs.total_costs, rate_diff, T, risk_free_rate)
        roi == RoiOf(b.theoretical_profit, b.capital_employed)
    IN  [strategy_type |-> strategy_type,
         strike |-> strike, spot |-> spot,
         call_mid |-> call_mid, put_mid |-> put_mid,
         call_value |-> call_value, put_value |-> put_value,
         stock_value |-> stock_value, strike_value |-> strike_value,
         option_net |-> b.option_net,
         initial_cash |-> b.initial_cash, expiry_cash |-> b.expiry_cash,
         total_commission |-> costs.total_commission,
         slippage_cost |-> costs.slippage_cost,
         total_costs |-> costs.total_costs,
         net_pnl |-> b.net_pnl,
         theoretical_profit |-> b.theoretical_profit,
         required_margin |-> b.required_margin,
         capital_employed |-> b.capital_employed,
         roi |-> roi,
         annualized_return |-> AnnualizedOf(roi, days_to_expiry),
         best_case |-> (b.theoretical_profit * 13) \div 10,
         worst_case |-> (b.theoretical_profit * 7) \div 10,
         days_to_expiry |-> days_to_expiry,
         implied_rate |-> V(row.implied_r),
         rate_diff |-> rate_diff,
         risk_free_rate |-> risk_free_rate]

\* ------------------------------------------------------------ inputs
\* Bid, Ask, Last of a quote: no price at all, last only, bid and ask, bid
\* only, ask only
PriceShapes ==
    { [Bid |-> NaN, Ask |-> NaN, Last |-> NaN],
      [Bid |-> NaN, Ask |-> NaN, Last |-> F(50)],
      [Bid |-> F(800), Ask |-> F(1000), Last |-> F(50)],
      [Bid |-> F(800), Ask |-> NaN, Last |-> F(50)],
      [Bid |-> NaN, Ask |-> F(1000), Last |-> F(50)] }

\* strike and expiry (half days from now) of the contracts next to the main
\* one: the same day at another hour, strike 0, expired, expiring today,
\* another strike
SideContracts ==
    { [StrikePrice |-> 9500, ExpiryDate |-> 364],
      [StrikePrice |-> 0, ExpiryDate |-> 365],
      [StrikePrice |-> 9500, ExpiryDate |-> -1],
      [StrikePrice |-> 9500, ExpiryDate |-> 1],
      [StrikePrice |-> 10000, ExpiryDate |-> 365] }

Quote(cp, strike, expiry, px) ==
    [CallPutOption |-> cp, StrikePrice |-> strike, ExpiryDate |-> expiry,
     Bid |-> px.Bid, Ask |-> px.Ask, Last |-> px.Last]

QuoteShapes ==
    { Quote(cp, 9500, 365, px) : cp \in {"Call", "Put"}, px \in PriceShapes }
    \cup
    { Quote(cp, c.StrikePrice, c.ExpiryDate,
            [Bid |-> F(800), Ask |-> F(1000), Last |-> F(50)]) :
        cp \in {"Call", "Put"}, c \in SideContracts }

\* a batch: its rows carry their position as RIC
WithRIC(q, i) ==
    [RIC |-> i, CallPutOption |-> q.CallPutOption, StrikePrice |-> q.StrikePrice,
     ExpiryDate |-> q.ExpiryDate, Bid |-> q.Bid, Ask |-> q.Ask, Last |-> q.Last]

Batches ==
    UNION { { [i \in 1..n |-> WithRIC(f[i], i)] : f \in [1..n -> QuoteShapes] } :
            n \in 0..MaxRows }

Spots == {10000, 850}
Rates == {500, 568}
Thresholds == {-50, -34, 34, 50}

NoOpp ==
    [K |-> 0, T |-> 0, S |-> 0, ExpiryDate |-> 0, RIC_call |-> 0, RIC_put |-> 0,
     C_mid |-> NaN, P_mid |-> NaN, implied_r |-> NaN, r_diff |-> NaN,
     signal |-> NOSIGNAL]

NoPair == [K |-> 0, T |-> 0, S |-> 0, C_mid |-> NaN, P_mid |-> NaN]

\* the parts of the state a specification does not exercise
PipelineIdle ==
    /\ option_data = None
    /\ spot_price_data = Some(10000)
    /\ surface_data = None
    /\ input_risk_free_rate = 500
    /\ input_arb_threshold = 50
    /\ arbitrage_data = None
    /\ chain_signals = None

ExecIdle ==
    /\ opp = NoOpp
    /\ calc_contracts = 10
    /\ calc_commission = 500
    /\ calc_slippage_pct = 5
    /\ calc_rate = 500
    /\ report = None

ViewIdle == details = None /\ plot = None

SolveIdle == pair = NoPair /\ implied_app = None /\ implied_engine = None

ServerIdle ==
    /\ exchange_time_data = None
    /\ now = 0
    /\ last_spot_fetch = "none"
    /\ selected_arb_row = None
    /\ shown_rows = 0
    /\ last_analysis = "none"

NoUpstream ==
    [spot_raises |-> FALSE, spot |-> None, chain_raises |-> FALSE, chain |-> None]

FetchIdle ==
    /\ upstream = NoUpstream
    /\ worker_response = None
    /\ http_response = None
    /\ client_result = None

\* ------------------------------------------------------------ pipeline
Init ==
    /\ option_data \in {Some(b) : b \in Batches}
    /\ spot_price_data \in {Some(s) : s \in Spots}
    /\ surface_data = None
    /\ input_risk_free_rate = 500
    /\ input_arb_threshold = 50
    /\ arbitrage_data = None
    /\ chain_signals = None
    /\ opp = NoOpp
    /\ calc_contracts = 10
    /\ calc_commission = 500
    /\ calc_slippage_pct = 5
    /\ calc_rate = 500
    /\ report = None
    /\ ViewIdle /\ SolveIdle /\ ServerIdle /\ FetchIdle
    /\ pc = "fetched"

\* build_surface(quotes, spot)
BuildSurface ==
    /\ pc = "fetched"
    /\ surface_data' = Some(build_surface_df(option_data[1], spot_price_data[1]))
    /\ option_data' = Some(CallerFrameAfterBuild(option_data[1],
                                                 spot_price_data[1]))
    /\ pc' = "built"
    /\ UNCHANGED <<spot_price_data, input_risk_free_rate,
                   input_arb_threshold, arbitrage_data, chain_signals>>
    /\ UNCHANGED <<execVars, viewVars, solveVars, serverVars, fetchVars>>

\* find_arbitrage(surface, risk_free_rate, threshold) of app.py
FindArbitrage ==
    /\ pc = "built"
    /\ \E rf \in Rates, th \in Thresholds :
          /\ input_risk_free_rate' = rf
          /\ input_arb_threshold' = th
          /\ arbitrage_data' = Some(analyze_arbitrage(surface_data[1], rf, th))
          /\ surface_data' = Some(CallerFrameAfterAnalyze(surface_data[1], rf, th))
    /\ pc' = "analyzed"
    /\ UNCHANGED <<option_data, spot_price_data, chain_signals>>
    /\ UNCHANGED <<execVars, viewVars, solveVars, serverVars, fetchVars>>

\* analyze_chain(records, base_rate, threshold) on the same contracts
AnalyzeChain ==
    /\ pc = "analyzed"
    /\ chain_signals' = Some(analyze_chain(ChainRecords(surface_data[1]),
                                           input_risk_free_rate,
                                           input_arb_threshold))
    /\ pc' = "done"
    /\ UNCHANGED <<option_data, spot_price_data, surface_data,
                   input_risk_free_rate, input_arb_threshold, arbitrage_data>>
    /\ UNCHANGED <<execVars, viewVars, solveVars, serverVars, fetchVars>>

Next == BuildSurface \/ FindArbitrage \/ AnalyzeChain

Spec == Init /\ [][Next]_vars

\* ------------------------------------------------------------ cost model alone
OppRows ==
    { [K |-> k, T |-> t, S |-> s, ExpiryDate |-> 0, RIC_call |-> 1, RIC_put |-> 2,
       C_mid |-> F(c), P_mid |-> F(50), implied_r |-> F(500 + d),
       r_diff |-> F(d), signal |-> sig] :
        k \in {9500, 0}, t \in {-2, 0, 365}, s \in {10000, 800},
        c \in {800, 900}, d \in {-252, 0, 252}, sig \in {SELL, BUY} }

InitExec ==
    /\ PipelineIdle
    /\ ViewIdle /\ SolveIdle /\ ServerIdle /\ FetchIdle
    /\ opp \in OppRows
    /\ calc_contracts \in 0..MaxContracts
    /\ calc_commission \in {0, 500}
    /\ calc_slippage_pct \in {0, 5}
    /\ calc_rate \in {0, 500}
    /\ report = None
    /\ pc = "calc"

\* estimate_execution(opportunity, contracts, commission, slippage_pct, risk_free_rate)
EstimateExecution ==
    /\ pc = "calc"
    /\ report' = Some(calculate_execution_costs(opp, calc_contracts,
                          calc_commission, calc_slippage_pct, calc_rate))
    /\ pc' = "reported"
    /\ UNCHANGED <<opp, calc_contracts, calc_commission, calc_slippage_pct,
                   calc_rate>>
    /\ UNCHANGED <<pipelineVars, viewVars, solveVars, serverVars, fetchVars>>

NextExec == EstimateExecution

SpecExec == InitExec /\ [][NextExec]_vars

\* ------------------------------------------------------------ strategy breakdown alone
\* the rate gaps (in 1/RateScale) around the two bars, 0.5 % and 1 %
DescribeGaps == {-101, -100, -99, -51, -50, -49, 0, 49, 50, 51, 99, 100, 101}

DescribeRows ==
    { [K |-> 9500, T |-> 365, S |-> s, ExpiryDate |-> 0, RIC_call |-> 1,
       RIC_put |-> 2, C_mid |-> F(c), P_mid |-> F(50), implied_r |-> F(500 + d),
       r_diff |-> F(d), signal |-> sig] :
        s \in {10000, 800}, c \in {800, 900}, d \in DescribeGaps,
        sig \in {SELL, BUY} }

InitDescribe ==
    /\ PipelineIdle
    /\ opp \in DescribeRows
    /\ calc_contracts = 10
    /\ calc_commission = 500
    /\ calc_slippage_pct = 5
    /\ calc_rate = 500
    /\ report = None
    /\ ViewIdle /\ SolveIdle /\ ServerIdle /\ FetchIdle
    /\ pc = "selected"

\* describe_strategy(opportunity)
DescribeStrategy ==
    /\ pc = "selected"
    /\ details' = Some(get_strategy_details(opp))
    /\ pc' = "described"
    /\ UNCHANGED <<pipelineVars, execVars, plot, solveVars, serverVars, fetchVars>>

NextDescribe == DescribeStrategy

SpecDescribe == InitDescribe /\ [][NextDescribe]_vars

\* ------------------------------------------------------------ surface view alone
\* opportunities in the batch handed to the view
MaxPoints == 4

PlotStrikes == {9000, 9500, 10000}
PlotYears == {182, 364, 546}

PlotRow(k, t) ==
    [K |-> k, T |-> t, S |-> 10000, ExpiryDate |-> t,
     RIC_call |-> 1, RIC_put |-> 2, C_mid |-> F(800), P_mid |-> F(50),
     implied_r |-> F(600), r_diff |-> F(100), signal |-> SELL]

PlotBatches ==
    UNION { [1..n -> { PlotRow(k, t) : k \in PlotStrikes, t \in PlotYears }] :
            n \in 0..MaxPoints }

\* a surface held while the batch is shown
PlotSurface ==
    build_surface_df(<<WithRIC(Quote("Call", 9500, 365,
                          [Bid |-> F(800), Ask |-> F(1000), Last |-> F(50)]), 1)>>,
                     10000)

InitPlot ==
    /\ option_data = None
    /\ spot_price_data = Some(10000)
    /\ surface_data \in {None, Some(PlotSurface)}
    /\ input_risk_free_rate = 500
    /\ input_arb_threshold = 50
    /\ arbitrage_data \in {None} \cup { Some(b) : b \in PlotBatches }
    /\ chain_signals = None
    /\ ExecIdle /\ ViewIdle /\ SolveIdle /\ ServerIdle /\ FetchIdle
    /\ pc = "analysis held"

\* interpolate_surface(opportunities): the view is rendered
RenderSurfacePlot ==
    /\ pc = "analysis held"
    /\ plot' = Some(surface_plot(surface_data, arbitrage_data))
    /\ pc' = "plotted"
    /\ UNCHANGED <<pipelineVars, execVars, details, solveVars, serverVars, fetchVars>>

NextPlot == RenderSurfacePlot

SpecPlot == InitPlot /\ [][NextPlot]_vars

\* ------------------------------------------------------------ solver alone
\* call mids of the pair: one cent and more apart, the last beyond the spot
CallMids == {700, 750, 799, 800, 801, 900, 10100}

Pairs ==
    { [K |-> k, T |-> t, S |-> 10000, C_mid |-> F(c), P_mid |-> F(p)] :
        k \in {9500, 10500}, t \in {73, 365, 730}, c \in CallMids,
        p \in {50, 500} }

\* the Call row and the Put row of a pair, as rows of a surface
PairSurface(row) ==
    << [RIC |-> 1, K |-> row.K, T |-> row.T, mid |-> row.C_mid, S |-> row.S,
        StrikePrice |-> row.K, ExpiryDate |-> row.T, CallPutOption |-> "Call"],
       [RIC |-> 2, K |-> row.K, T |-> row.T, mid |-> row.P_mid, S |-> row.S,
        StrikePrice |-> row.K, ExpiryDate |-> row.T, CallPutOption |-> "Put"] >>

InitSolve ==
    /\ pair \in Pairs
    /\ option_data = None
    /\ spot_price_data = Some(pair.S)
    /\ surface_data = Some(PairSurface(pair))
    /\ input_risk_free_rate = 500
    /\ input_arb_threshold \in {0, 30, 50}
    /\ arbitrage_data = None
    /\ chain_signals = None
    /\ implied_app = None
    /\ implied_engine = None
    /\ ExecIdle /\ ViewIdle /\ ServerIdle /\ FetchIdle
    /\ pc = "pair"

\* the parity inversion of both files on the pair
ImpliedRate ==
    /\ pc = "pair"
    /\ implied_app' = compute_implied_r(pair)
    /\ implied_engine' = engine_compute_implied_r(pair.S, pair.C_mid, pair.P_mid,
                                                  pair.K, pair.T)
    /\ pc' = "solved"
    /\ UNCHANGED <<pipelineVars, execVars, viewVars, pair, serverVars, fetchVars>>

\* find_arbitrage on the surface of the pair
FindPairArbitrage ==
    /\ pc = "solved"
    /\ arbitrage_data' = Some(analyze_arbitrage(surface_data[1],
                                   input_risk_free_rate, input_arb_threshold))
    /\ surface_data' = Some(CallerFrameAfterAnalyze(surface_data[1],
                                   input_risk_free_rate, input_arb_threshold))
    /\ pc' = "found"
    /\ UNCHANGED <<option_data, spot_price_data,
                   input_risk_free_rate, input_arb_threshold, chain_signals>>
    /\ UNCHANGED <<execVars, viewVars, solveVars, serverVars, fetchVars>>

\* calculator_interface on the opportunity found: calculate_execution_costs
\* of the row at the calculator's parameters and the benchmark rate
EstimatePair ==
    /\ pc = "found"
    /\ arbitrage_data[1] # << >>
    /\ opp' = arbitrage_data[1][1]
    /\ calc_contracts' \in {1, MaxContracts}
    /\ calc_commission' \in {0, 500}
    /\ calc_slippage_pct' \in {0, 5}
    /\ calc_rate' = input_risk_free_rate
    /\ report' = Some(calculate_execution_costs(opp', calc_contracts',
                          calc_commission', calc_slippage_pct', calc_rate'))
    /\ pc' = "estimated"
    /\ UNCHANGED <<pipelineVars, viewVars, solveVars, serverVars, fetchVars>>

NextSolve == ImpliedRate \/ FindPairArbitrage \/ EstimatePair

SpecSolve == InitSolve /\ [][NextSolve]_vars

\* ------------------------------------------------------------ server
\* fetch requests in a session
MaxFetches == 3
\* the quotes the provider returns: a call quoted on both sides, a call with a
\* bid only, a put with a last price only
ServerQuotes ==
    { Quote("Call", 9500, 365, [Bid |-> F(800), Ask |-> F(1000), Last |-> F(50)]),
      Quote("Call", 9500, 365, [Bid |-> F(800), Ask |-> NaN, Last |-> F(50)]),
      Quote("Put", 9500, 365, [Bid |-> NaN, Ask |-> NaN, Last |-> F(50)]) }

\* chain.merge(price_df, on="RIC", how="left") of a non-empty search result:
\* the chain lists some of the provider's instruments, each once, in any order
ServerBatches ==
    UNION { { [i \in 1..n |-> WithRIC(f[i], i)] :
                f \in { g \in [1..n -> ServerQuotes] :
                           \A i, j \in 1..n : g[i] = g[j] => i = j } } :
            n \in 1..Cardinality(ServerQuotes) }

\* the close prices the provider returns in a session: 100.00 and 100.50
ServerSpots == {10000, 10050}

\* the values typed into the calculator's contract count
ContractInputs == {None, Some(1)}

InitServer ==
    /\ spot_price_data = None
    /\ exchange_time_data = None
    /\ option_data = None
    /\ surface_data = None
    /\ arbitrage_data = None
    /\ selected_arb_row = None
    /\ input_risk_free_rate = 500
    /\ input_arb_threshold = 50
    /\ chain_signals = None
    /\ now = 0
    /\ last_spot_fetch = "none"
    /\ shown_rows = 0
    /\ last_analysis = "none"
    /\ ExecIdle /\ ViewIdle /\ SolveIdle /\ FetchIdle
    /\ pc = "serving"

\* _fetch_spot: rd.get_data returns a close price, or raises
FetchSpot ==
    /\ pc = "serving"
    /\ now < MaxFetches
    /\ now' = now + 1
    /\ exchange_time_data' = Some(now + 1)
    /\ \/ \E price \in ServerSpots :
             /\ spot_price_data' = Some(price)
             /\ last_spot_fetch' = "ok"
       \/ /\ UNCHANGED spot_price_data
          /\ last_spot_fetch' = "failed"
    /\ UNCHANGED <<option_data, surface_data, input_risk_free_rate,
                   input_arb_threshold, arbitrage_data, chain_signals, pc>>
    /\ UNCHANGED <<selected_arb_row, shown_rows, last_analysis>>
    /\ UNCHANGED <<execVars, viewVars, solveVars, fetchVars>>

\* option_data.set(merged) with the rows appended to the batch held
HeldAfterFetch_Append(held, merged) ==
    IF held = None THEN Some(merged) ELSE Some(held[1] \o merged)

\* option_data.set(merged): the value held is replaced
HeldAfterFetch(held, merged) == Some(merged)

\* _fetch_chain: returns at once without a spot; else the search returns an
\* empty chain, or a chain whose prices are merged in, or a request raises
\* and the effect ends with the error (the session is closed)
FetchChain ==
    /\ pc = "serving"
    /\ now < MaxFetches
    /\ now' = now + 1
    /\ IF spot_price_data = None
       THEN UNCHANGED <<option_data, surface_data, exchange_time_data, pc>>
       ELSE \/ /\ option_data' = HeldAfterFetch(option_data, << >>)
               /\ surface_data' = None
               /\ exchange_time_data' = Some(now + 1)
               /\ UNCHANGED pc
            \/ \E merged \in ServerBatches :
                  /\ option_data' =
                        HeldAfterFetch(option_data,
                            CallerFrameAfterBuild(merged, spot_price_data[1]))
                  /\ surface_data' = Some(build_surface_df(option_data'[1],
                                              spot_price_data[1]))
                  /\ exchange_time_data' = Some(now + 1)
                  /\ UNCHANGED pc
            \/ /\ pc' = "closed"
               /\ UNCHANGED <<option_data, surface_data, exchange_time_data>>
    /\ UNCHANGED <<spot_price_data, input_risk_free_rate, input_arb_threshold,
                   arbitrage_data, chain_signals, last_spot_fetch>>
    /\ UNCHANGED <<selected_arb_row, shown_rows, last_analysis>>
    /\ UNCHANGED <<execVars, viewVars, solveVars, fetchVars>>

\* the thresholds entered in a session: 0.5 % and -0.5 %
ServerThresholds == {-50, 50}

\* the user types a benchmark rate and a threshold into the sidebar
EnterInputs ==
    /\ pc = "serving"
    /\ \E rf \in Rates, th \in ServerThresholds :
          /\ input_risk_free_rate' = rf
          /\ input_arb_threshold' = th
    /\ <<input_risk_free_rate', input_arb_threshold'>>
            # <<input_risk_free_rate, input_arb_threshold>>
    /\ UNCHANGED <<option_data, spot_price_data, surface_data, arbitrage_data,
                   chain_signals, pc>>
    /\ UNCHANGED <<execVars, viewVars, solveVars, serverVars, fetchVars>>

\* _analyze_arbitrage that leaves the selection as it was
AnalyzeArbitrage_KeepSelection ==
    /\ pc = "serving"
    /\ IF surface_data = None
       THEN /\ last_analysis' = "ignored"
            /\ UNCHANGED <<surface_data, arbitrage_data, selected_arb_row>>
       ELSE /\ arbitrage_data' =
                  Some(analyze_arbitrage(surface_data[1], input_risk_free_rate,
                                         input_arb_threshold))
            /\ surface_data' =
                  Some(CallerFrameAfterAnalyze(surface_data[1],
                           input_risk_free_rate, input_arb_threshold))
            /\ UNCHANGED selected_arb_row
            /\ last_analysis' = "done"
    /\ UNCHANGED <<option_data, spot_price_data, input_risk_free_rate,
                   input_arb_threshold, chain_signals, pc>>
    /\ UNCHANGED <<exchange_time_data, now, last_spot_fetch, shown_rows>>
    /\ UNCHANGED <<execVars, viewVars, solveVars, fetchVars>>

\* _analyze_arbitrage: req(surf is not None) ends the handler silently; else
\* analyze_arbitrage with the rate and the threshold entered, and the
\* selection is cleared
AnalyzeArbitrage ==
    /\ pc = "serving"
    /\ IF surface_data = None
       THEN /\ last_analysis' = "ignored"
            /\ UNCHANGED <<surface_data, arbitrage_data, selected_arb_row>>
       ELSE /\ arbitrage_data' =
                  Some(analyze_arbitrage(surface_data[1], input_risk_free_rate,
                                         input_arb_threshold))
            /\ surface_data' =
                  Some(CallerFrameAfterAnalyze(surface_data[1],
                           input_risk_free_rate, input_arb_threshold))
            /\ selected_arb_row' = None
            /\ last_analysis' = "done"
    /\ UNCHANGED <<option_data, spot_price_data, input_risk_free_rate,
                   input_arb_threshold, chain_signals, pc>>
    /\ UNCHANGED <<exchange_time_data, now, last_spot_fetch, shown_rows>>
    /\ UNCHANGED <<execVars, viewVars, solveVars, fetchVars>>

\* arbitrage_table: req(df is not None and not df.empty), then the grid of
\* the opportunities; the number of rows the grid has
arbitrage_table ==
    IF arbitrage_data = None THEN 0 ELSE Len(arbitrage_data[1])

\* the browser receives the table rendered from the opportunities held
ShowTable ==
    /\ pc = "serving"
    /\ shown_rows # arbitrage_table
    /\ shown_rows' = arbitrage_table
    /\ UNCHANGED <<exchange_time_data, now, last_spot_fetch, selected_arb_row,
                   last_analysis>>
    /\ UNCHANGED <<pipelineVars, execVars, viewVars, solveVars, fetchVars, pc>>

\* _on_row_select: the browser reports the rows selected in the table it
\* shows; the first is stored, or None when no row is selected
RowSelect ==
    /\ pc = "serving"
    /\ \/ \E selected \in 0..(shown_rows - 1) :
             selected_arb_row' = Some(selected)
       \/ selected_arb_row' = None
    /\ selected_arb_row' # selected_arb_row
    /\ UNCHANGED <<exchange_time_data, now, last_spot_fetch, shown_rows,
                   last_analysis>>
    /\ UNCHANGED <<pipelineVars, execVars, viewVars, solveVars, fetchVars, pc>>

\* _update_calc_params: the contract count typed replaces the one held, 10
\* when the field is empty
UpdateCalc ==
    /\ pc = "serving"
    /\ \E v \in ContractInputs :
          calc_contracts' = IF v = None THEN 10 ELSE v[1]
    /\ calc_contracts' # calc_contracts
    /\ UNCHANGED <<opp, calc_commission, calc_slippage_pct, calc_rate, report>>
    /\ UNCHANGED <<pipelineVars, viewVars, solveVars, serverVars, fetchVars, pc>>

NextServer ==
    \/ FetchSpot
    \/ FetchChain
    \/ EnterInputs
    \/ AnalyzeArbitrage
    \/ ShowTable
    \/ RowSelect
    \/ UpdateCalc

SpecServer == InitServer /\ [][NextServer]_vars

\* spot_price(): req(spot_price_data.get() is not None), then the value shown
spot_price == IF spot_price_data = None THEN None ELSE Some(spot_price_data[1])

CLICK_A_ROW == "Click on a row above to see detailed strategy breakdown"
NO_STRATEGY == "No Strategy Selected"
INDEX_ERROR == "IndexError: single positional indexer is out-of-bounds"

\* strategy_details without the df.empty test
strategy_details_NoEmptyCheck ==
    IF selected_arb_row = None \/ arbitrage_data = None
    THEN [shown |-> "placeholder", text |-> CLICK_A_ROW]
    ELSE IF selected_arb_row[1] >= Len(arbitrage_data[1])
    THEN [shown |-> "error", text |-> INDEX_ERROR]
    ELSE [shown |-> "details", text |-> "",
          details |-> get_strategy_details(arbitrage_data[1][selected_arb_row[1] + 1])]

\* strategy_details: the placeholder unless a row is selected and there are
\* opportunities; else df.iloc[row_idx] and its breakdown
strategy_details ==
    IF selected_arb_row = None \/ arbitrage_data = None
    THEN [shown |-> "placeholder", text |-> CLICK_A_ROW]
    ELSE IF arbitrage_data[1] = << >>
    THEN [shown |-> "placeholder", text |-> CLICK_A_ROW]
    ELSE IF selected_arb_row[1] >= Len(arbitrage_data[1])
    THEN [shown |-> "error", text |-> INDEX_ERROR]
    ELSE [shown |-> "details", text |-> "",
          details |-> get_strategy_details(arbitrage_data[1][selected_arb_row[1] + 1])]

\* calculator_interface: the placeholder unless a row is selected and there
\* are opportunities; else df.iloc[row_idx] and its report, at the calculator's
\* parameters and the benchmark rate entered in the sidebar
calculator_interface ==
    IF selected_arb_row = None \/ arbitrage_data = None
    THEN [shown |-> "placeholder", text |-> NO_STRATEGY]
    ELSE IF arbitrage_data[1] = << >>
    THEN [shown |-> "placeholder", text |-> NO_STRATEGY]
    ELSE IF selected_arb_row[1] >= Len(arbitrage_data[1])
    THEN [shown |-> "error", text |-> INDEX_ERROR]
    ELSE [shown |-> "report", text |-> "",
          results |-> calculate_execution_costs(
                          arbitrage_data[1][selected_arb_row[1] + 1],
                          calc_contracts, calc_commission, calc_slippage_pct,
                          input_risk_free_rate)]

\* surface_plot() of the server: the renderer on the surface and the
\* opportunities held
surface_view == surface_plot(surface_data, arbitrage_data)

\* ------------------------------------------------------------ worker and client
\* EXPIR_DATE of a provider row: missing, not a date, yesterday, in 30 days
RawExpiries ==
    { None, Some([parses |-> FALSE, days |-> 0]),
      Some([parses |-> TRUE, days |-> -1]), Some([parses |-> TRUE, days |-> 30]) }

RawRows ==
    { [STRIKE_PRC |-> k, EXPIR_DATE |-> e, PUTCALLIND |-> ind,
       CF_BID |-> F(800), CF_ASK |-> NaN] :
        k \in {NaN, F(9500)}, e \in RawExpiries, ind \in {"C", "X"} }

RawChains == UNION { [1..n -> RawRows] : n \in 0..MaxRows }

Upstreams ==
    { [spot_raises |-> sr, spot |-> sp, chain_raises |-> cr, chain |-> ch] :
        sr \in BOOLEAN, sp \in {None, Some(10000)}, cr \in BOOLEAN,
        ch \in {None} \cup { Some(c) : c \in RawChains } }

InitFetch ==
    /\ PipelineIdle
    /\ ExecIdle /\ ViewIdle /\ SolveIdle /\ ServerIdle
    /\ upstream \in Upstreams
    /\ worker_response = None
    /\ http_response = None
    /\ client_result = None
    /\ pc = "requested"

\* the worker handles GET /fetch
WorkerFetch ==
    /\ pc = "requested"
    /\ worker_response' = Some(fetch(upstream))
    /\ pc' = "responded"
    /\ UNCHANGED <<upstream, http_response, client_result>>
    /\ UNCHANGED <<pipelineVars, execVars, viewVars, solveVars, serverVars>>

\* get_option_chain(symbol) returns to its caller
ClientGet ==
    /\ pc = "responded"
    /\ \E resp \in HttpOutcomes(worker_response[1]) :
          /\ http_response' = Some(resp)
          /\ client_result' = get_option_chain(resp)
    /\ pc' = "returned"
    /\ UNCHANGED <<upstream, worker_response>>
    /\ UNCHANGED <<pipelineVars, execVars, viewVars, solveVars, serverVars>>

NextFetch == WorkerFetch \/ ClientGet

SpecFetch == InitFetch /\ [][NextFetch]_vars

\* ------------------------------------------------------------ claims: Parity Solver
Analysed == pc \in {"analyzed", "done"}
Chain == option_data[1]
Surf == surface_data[1]
Arb == arbitrage_data[1]

\* a Call row and a Put row of the surface with equal (K, T, S, ExpiryDate)
JoinedPairs ==
    { ij \in (1..Len(Surf)) \X (1..Len(Surf)) :
        /\ Surf[ij[1]].CallPutOption = "Call"
        /\ Surf[ij[2]].CallPutOption = "Put"
        /\ Surf[ij[1]].K = Surf[ij[2]].K
        /\ Surf[ij[1]].T = Surf[ij[2]].T
        /\ Surf[ij[1]].S = Surf[ij[2]].S
        /\ Surf[ij[1]].ExpiryDate = Surf[ij[2]].ExpiryDate }

PairRate(ij) ==
    compute_implied_r([K |-> Surf[ij[1]].K, T |-> Surf[ij[1]].T,
                       S |-> Surf[ij[1]].S, C_mid |-> Surf[ij[1]].mid,
                       P_mid |-> Surf[ij[2]].mid])

\* the opportunities of analyze_arbitrage built from the pair
Emitted(ij) ==
    { k \in 1..Len(Arb) : /\ Arb[k].RIC_call = Surf[ij[1]].RIC
                          /\ Arb[k].RIC_put = Surf[ij[2]].RIC }

EmittedAs(ij, sig, r, d) ==
    /\ Cardinality(Emitted(ij)) = 1
    /\ \A k \in Emitted(ij) : /\ Arb[k].signal = sig
                              /\ Arb[k].implied_r = F(r)
                              /\ Arb[k].r_diff = F(d)

\* the pair analyze_chain keeps for a key: the last Call and the last Put of it
LastOfKey(i) ==
    \A i2 \in (i + 1)..Len(Surf) :
        ~ /\ Surf[i2].CallPutOption = Surf[i].CallPutOption
          /\ Surf[i2].K = Surf[i].K
          /\ Surf[i2].ExpiryDate = Surf[i].ExpiryDate

ChainPairs == { ij \in JoinedPairs : LastOfKey(ij[1]) /\ LastOfKey(ij[2]) }

ChainEmitted(ij) ==
    { k \in 1..Len(chain_signals[1]) :
        /\ chain_signals[1][k].strike = Surf[ij[1]].K
        /\ chain_signals[1][k].expiry_date = Surf[ij[1]].ExpiryDate }

ChainEmittedAs(ij, sig, r) ==
    /\ Cardinality(ChainEmitted(ij)) = 1
    /\ \A k \in ChainEmitted(ij) :
          /\ chain_signals[1][k].signal = sig
          /\ chain_signals[1][k].implied_r = Some(r)
          /\ chain_signals[1][k].call_mid = Surf[ij[1]].mid
          /\ chain_signals[1][k].put_mid = Surf[ij[2]].mid

\* C1 as claimed: for every joined pair with a defined implied rate r and
\* delta = r - risk_free_rate, analyze_arbitrage emits the pair with the Sell
\* signal when delta > threshold, with the Buy signal when delta < -threshold,
\* and does not emit it otherwise.
C1_AsClaimed ==
    Analysed =>
        \A ij \in JoinedPairs :
            ~IsNaN(PairRate(ij)) =>
                LET r == V(PairRate(ij))
                    d == r - input_risk_free_rate
                IN  /\ d > input_arb_threshold => EmittedAs(ij, SELL, r, d)
                    /\ d < -input_arb_threshold => EmittedAs(ij, BUY, r, d)
                    /\ (~(d > input_arb_threshold) /\ ~(d < -input_arb_threshold))
                          => Emitted(ij) = {}

\* C1 amended: for every joined pair with a defined implied rate r and
\* delta = r - risk_free_rate, analyze_arbitrage emits the pair with the Buy
\* signal when delta < -threshold, otherwise with the Sell signal when
\* delta > threshold, otherwise not at all; analyze_chain emits it with the
\* Sell signal when delta > threshold, otherwise with the Buy signal when
\* delta < -threshold, otherwise not at all.  With threshold >= 0 the two
\* conditions exclude each other and this is the claim as written.
C1_Classification ==
    /\ Analysed =>
          \A ij \in JoinedPairs :
              ~IsNaN(PairRate(ij)) =>
                  LET r == V(PairRate(ij))
                      d == r - input_risk_free_rate
                  IN  IF d < -input_arb_threshold THEN EmittedAs(ij, BUY, r, d)
                      ELSE IF d > input_arb_threshold THEN EmittedAs(ij, SELL, r, d)
                      ELSE Emitted(ij) = {}
    /\ pc = "done" =>
          \A ij \in ChainPairs :
              ~IsNaN(PairRate(ij)) =>
                  LET r == V(PairRate(ij))
                      d == r - input_risk_free_rate
                  IN  IF d > input_arb_threshold THEN ChainEmittedAs(ij, SELL, r)
                      ELSE IF d < -input_arb_threshold THEN ChainEmittedAs(ij, BUY, r)
                      ELSE ChainEmitted(ij) = {}

\* a pair for which both conditions hold has been classified by both solvers
C1_Witness ==
    /\ pc = "done"
    /\ \E ij \in ChainPairs :
          /\ ~IsNaN(PairRate(ij))
          /\ V(PairRate(ij)) - input_risk_free_rate > input_arb_threshold
          /\ V(PairRate(ij)) - input_risk_free_rate < -input_arb_threshold
          /\ \E k \in Emitted(ij) : Arb[k].signal = BUY
          /\ \E k \in ChainEmitted(ij) : chain_signals[1][k].signal = SELL

\* C2 as claimed: every opportunity has |delta| > threshold, and a pair whose
\* delta equals threshold or -threshold is never in the output, whatever the
\* threshold.
C2_AsClaimed ==
    Analysed =>
        /\ \A k \in 1..Len(Arb) : Abs(V(Arb[k].r_diff)) > input_arb_threshold
        /\ \A ij \in JoinedPairs :
              (/\ ~IsNaN(PairRate(ij))
               /\ Abs(V(PairRate(ij)) - input_risk_free_rate)
                      = Abs(input_arb_threshold))
                  => Emitted(ij) = {}

\* C2 amended: every opportunity of analyze_arbitrage and every signal of
\* analyze_chain has |delta| > threshold strictly, and with threshold >= 0 a
\* pair whose delta equals threshold or -threshold is in neither output.
C2_StrictThreshold ==
    /\ Analysed =>
          /\ \A k \in 1..Len(Arb) :
                /\ ~IsNaN(Arb[k].r_diff)
                /\ Abs(V(Arb[k].r_diff)) > input_arb_threshold
          /\ input_arb_threshold >= 0 =>
                \A ij \in JoinedPairs :
                    (/\ ~IsNaN(PairRate(ij))
                     /\ Abs(V(PairRate(ij)) - input_risk_free_rate)
                            = input_arb_threshold)
                        => Emitted(ij) = {}
    /\ pc = "done" =>
          /\ \A k \in 1..Len(chain_signals[1]) :
                Abs(chain_signals[1][k].implied_r[1] - input_risk_free_rate)
                    > input_arb_threshold
          /\ input_arb_threshold >= 0 =>
                \A ij \in ChainPairs :
                    (/\ ~IsNaN(PairRate(ij))
                     /\ Abs(V(PairRate(ij)) - input_risk_free_rate)
                            = input_arb_threshold)
                        => ChainEmitted(ij) = {}

\* a pair exactly at a non-negative threshold has been analysed and is absent
C2_Witness ==
    /\ pc = "done"
    /\ input_arb_threshold >= 0
    /\ \E ij \in ChainPairs :
          /\ ~IsNaN(PairRate(ij))
          /\ V(PairRate(ij)) - input_risk_free_rate = input_arb_threshold
          /\ Emitted(ij) = {}
    /\ Arb = << >>

\* S - (C - P) of a joined pair (NaN when a mid is missing)
PairNumerator(ij) ==
    FSub(F(Surf[ij[1]].S), FSub(Surf[ij[1]].mid, Surf[ij[2]].mid))

OutOfDomain(ij) ==
    \/ Surf[ij[1]].T <= 0
    \/ Surf[ij[1]].K <= 0
    \/ FLe(PairNumerator(ij), F(0))

\* C3: for every joined pair with T <= 0, K <= 0 or S - (C - P) <= 0 the
\* parity inversion of both solvers yields no implied rate, and the pair is in
\* neither the opportunities of analyze_arbitrage nor (for the pair
\* analyze_chain keeps for the key) the signals of analyze_chain; the analysis
\* completes.
C3_UndefinedExcluded ==
    /\ Analysed =>
          \A ij \in JoinedPairs :
              OutOfDomain(ij) =>
                  /\ IsNaN(PairRate(ij))
                  /\ engine_compute_implied_r(Surf[ij[1]].S, Surf[ij[1]].mid,
                         Surf[ij[2]].mid, Surf[ij[1]].K, Surf[ij[1]].T) = None
                  /\ Emitted(ij) = {}
    /\ pc = "done" =>
          \A ij \in ChainPairs : OutOfDomain(ij) => ChainEmitted(ij) = {}

\* a pair with T > 0, K > 0 and a non-positive numerator has been analysed
C3_Witness ==
    /\ pc = "done"
    /\ \E ij \in JoinedPairs :
          /\ Surf[ij[1]].T > 0
          /\ Surf[ij[1]].K > 0
          /\ FLe(PairNumerator(ij), F(0))
          /\ Emitted(ij) = {}

\* C4: every opportunity of analyze_arbitrage is built from one Call row and
\* one Put row of the surface with equal K, T, S and ExpiryDate, carries these
\* keys, and its C_mid and P_mid are the mids of that Call and that Put; no
\* pair is emitted twice.
C4_ExactJoin ==
    Analysed =>
        /\ \A k \in 1..Len(Arb) :
              \E ij \in JoinedPairs :
                  /\ Arb[k].RIC_call = Surf[ij[1]].RIC
                  /\ Arb[k].RIC_put = Surf[ij[2]].RIC
                  /\ Arb[k].K = Surf[ij[1]].K
                  /\ Arb[k].T = Surf[ij[1]].T
                  /\ Arb[k].S = Surf[ij[1]].S
                  /\ Arb[k].ExpiryDate = Surf[ij[1]].ExpiryDate
                  /\ Arb[k].C_mid = Surf[ij[1]].mid
                  /\ Arb[k].P_mid = Surf[ij[2]].mid
        /\ \A k1, k2 \in 1..Len(Arb) :
              (/\ Arb[k1].RIC_call = Arb[k2].RIC_call
               /\ Arb[k1].RIC_put = Arb[k2].RIC_put) => k1 = k2
        /\ JoinedPairs = {} => Arb = << >>

\* a Call and a Put that differ only in the expiry date (same K, T and S) have
\* been analysed and gave no opportunity
C4_Witness ==
    /\ Analysed
    /\ \E i, j \in 1..Len(Surf) :
          /\ Surf[i].CallPutOption = "Call"
          /\ Surf[j].CallPutOption = "Put"
          /\ Surf[i].K = Surf[j].K
          /\ Surf[i].T = Surf[j].T
          /\ Surf[i].T > 0
          /\ Surf[i].ExpiryDate # Surf[j].ExpiryDate
    /\ Arb = << >>

\* an opportunity built from a matching Call and Put is held
C4_WitnessEmitted ==
    /\ Analysed
    /\ \E ij \in JoinedPairs : Emitted(ij) # {}

Built == pc # "fetched"

\* C5 as claimed: for every surface row, mid = (bid + ask) / 2 when bid and
\* ask are both defined, and mid = last when either is missing.
C5_MidRule ==
    Built =>
        \A i \in 1..Len(Surf) :
            LET q == Chain[i]
            IN  IF ~IsNaN(q.Bid) /\ ~IsNaN(q.Ask)
                THEN Surf[i].mid = F((V(q.Bid) + V(q.Ask)) \div 2)
                ELSE Surf[i].mid = q.Last

Priceless(q) == IsNaN(q.Bid) /\ IsNaN(q.Ask) /\ IsNaN(q.Last)

\* C6: a quote with no bid, no ask and no last has an undefined mid in the
\* surface and takes part in no opportunity of analyze_arbitrage; the build
\* and the analysis of a batch that holds such a quote complete.
C6_PricelessExcluded ==
    /\ Built =>
          \A i \in 1..Len(Surf) : Priceless(Chain[i]) => IsNaN(Surf[i].mid)
    /\ Analysed =>
          \A k \in 1..Len(Arb) :
              \A i \in 1..Len(Chain) :
                  Priceless(Chain[i]) =>
                      /\ Arb[k].RIC_call # Chain[i].RIC
                      /\ Arb[k].RIC_put # Chain[i].RIC

\* a priceless quote joined with a priced quote of the other type has been
\* analysed
C6_Witness ==
    /\ pc = "done"
    /\ \E ij \in JoinedPairs :
          /\ Surf[ij[1]].T > 0
          /\ Surf[ij[1]].K > 0
          /\ Priceless(Chain[ij[1]]) # Priceless(Chain[ij[2]])
          /\ Emitted(ij) = {}

\* ------------------------------------------------------------ claims: Execution Cost Model
Reported == pc = "reported"
Rep == report[1]

\* the growth factor e^(risk_free_rate * T) of the report's benchmark rate
Growth == Exp((calc_rate * opp.T) \div TDen)

\* C7: the report's notionals are price * contracts * 100 for call, put, stock
\* and strike, total_commission is 3 * commission_per_leg whatever the contract
\* count, slippage_cost is (call + put + stock notional) * slippage_pct / 100
\* and total_costs their sum; S=100, K=95, C=9, P=0.5, contracts=10,
\* commission=5 gives 9000, 500, 100000 and 15.
C7_NotionalsAndCosts ==
    Reported =>
        /\ Rep.call_value = V(opp.C_mid) * calc_contracts * 100
        /\ Rep.put_value = V(opp.P_mid) * calc_contracts * 100
        /\ Rep.stock_value = opp.S * calc_contracts * 100
        /\ Rep.strike_value = opp.K * calc_contracts * 100
        /\ Rep.total_commission = 3 * calc_commission
        /\ Rep.slippage_cost =
              MulDiv(Rep.call_value + Rep.put_value + Rep.stock_value,
                     calc_slippage_pct, 100 * PctScale)
        /\ Rep.total_costs = Rep.total_commission + Rep.slippage_cost
        /\ (/\ opp.S = 100 * PriceScale
            /\ opp.K = 95 * PriceScale
            /\ opp.C_mid = F(9 * PriceScale)
            /\ opp.P_mid = F(PriceScale \div 2)
            /\ calc_contracts = 10
            /\ calc_commission = 5 * PriceScale)
              => /\ Rep.call_value = 9000 * PriceScale
                 /\ Rep.put_value = 500 * PriceScale
                 /\ Rep.stock_value = 100000 * PriceScale
                 /\ Rep.total_commission = 15 * PriceScale

\* the report of the scenario S=100, K=95, C=9, P=0.5, contracts=10,
\* commission=5, slippage 0.5 percent
C7_Witness ==
    /\ Reported
    /\ opp.S = 100 * PriceScale
    /\ opp.K = 95 * PriceScale
    /\ opp.C_mid = F(9 * PriceScale)
    /\ opp.P_mid = F(PriceScale \div 2)
    /\ calc_contracts = 10
    /\ calc_commission = 5 * PriceScale
    /\ calc_slippage_pct = 5
    /\ Rep.slippage_cost > 0

\* C8: for a Sell-synthetic opportunity the report has option_net = call_value
\* - put_value, initial outflow = stock_value - option_net + total_costs,
\* net_pnl = strike_value - outflow * e^(risk_free_rate * T),
\* theoretical_profit = delta * strike_value * T, required_margin = half the
\* stock value and capital_employed = the initial outflow.
C8_ReverseConversion ==
    (Reported /\ opp.signal = SELL) =>
        LET outflow == Rep.stock_value - Rep.option_net + Rep.total_costs
        IN  /\ Rep.option_net = Rep.call_value - Rep.put_value
            /\ Rep.initial_cash = -outflow
            /\ Rep.net_pnl = Rep.strike_value - SMulDiv(outflow, Growth, RateScale)
            /\ Rep.theoretical_profit =
                  (MulDiv(Rep.strike_value, V(opp.r_diff), RateScale) * opp.T)
                      \div TDen
            /\ 2 * Rep.required_margin = Rep.stock_value
            /\ Rep.capital_employed = outflow

\* a Sell-synthetic opportunity with costs, a positive benchmark rate and
\* T > 0 has been reported
C8_Witness ==
    /\ Reported
    /\ opp.signal = SELL
    /\ opp.T > 0
    /\ calc_rate > 0
    /\ V(opp.r_diff) > 0
    /\ calc_contracts > 0
    /\ Rep.total_costs > 0
    /\ Rep.net_pnl # Rep.theoretical_profit

\* C9: for a Buy-synthetic opportunity the report has option_net = put_value
\* - call_value, initial inflow = stock_value + option_net - total_costs,
\* net_pnl = inflow * e^(risk_free_rate * T) - strike_value,
\* theoretical_profit = |delta| * strike_value * T, required_margin = 1.5 times
\* the stock value and capital_employed = required_margin.
C9_Conversion ==
    (Reported /\ opp.signal = BUY) =>
        LET inflow == Rep.stock_value + Rep.option_net - Rep.total_costs
        IN  /\ Rep.option_net = Rep.put_value - Rep.call_value
            /\ Rep.initial_cash = inflow
            /\ Rep.net_pnl = SMulDiv(inflow, Growth, RateScale) - Rep.strike_value
            /\ Rep.theoretical_profit =
                  (MulDiv(Rep.strike_value, Abs(V(opp.r_diff)), RateScale) * opp.T)
                      \div TDen
            /\ 2 * Rep.required_margin = 3 * Rep.stock_value
            /\ Rep.capital_employed = Rep.required_margin

\* a Buy-synthetic opportunity with a negative delta, costs, a positive
\* benchmark rate and T > 0 has been reported
C9_Witness ==
    /\ Reported
    /\ opp.signal = BUY
    /\ opp.T > 0
    /\ calc_rate > 0
    /\ V(opp.r_diff) < 0
    /\ calc_contracts > 0
    /\ Rep.total_costs > 0
    /\ Rep.theoretical_profit > 0

\* C10: no report holds the result of a division by zero: roi is
\* theoretical_profit / capital_employed * 100 when capital_employed > 0 and 0
\* otherwise, annualized_return is roi * 365 / days_to_expiry when
\* days_to_expiry > 0 and 0 otherwise, also with contracts = 0 and T <= 0.
C10_NoDivisionByZero ==
    Reported =>
        /\ Rep.roi # DivByZero
        /\ Rep.annualized_return # DivByZero
        /\ Rep.capital_employed > 0 =>
              Rep.roi = F((Rep.theoretical_profit * 100 * RoiScale)
                              \div Rep.capital_employed)
        /\ Rep.capital_employed <= 0 => Rep.roi = F(0)
        /\ Rep.days_to_expiry > 0 =>
              Rep.annualized_return =
                  F((V(Rep.roi) * 365 * DayScale) \div Rep.days_to_expiry)
        /\ Rep.days_to_expiry <= 0 => Rep.annualized_return = F(0)

\* a report for contracts = 0 and T <= 0 whose capital employed is zero
C10_Witness ==
    /\ Reported
    /\ calc_contracts = 0
    /\ opp.T <= 0
    /\ Rep.capital_employed = 0
    /\ Rep.roi = F(0)
    /\ Rep.annualized_return = F(0)

\* ------------------------------------------------------------ claims: Strategy Classifier
Described == pc = "described"
Det == details[1]
GapAbs == Abs(V(opp.r_diff))

\* C11: get_strategy_details maps the Sell-synthetic signal to the Reverse
\* Conversion type with the legs sell call, buy put, buy stock and recommends
\* execution exactly when |delta| > 0.5 % (else the thin-margin text), and the
\* Buy-synthetic signal to the Conversion type with the legs buy call, sell
\* put, short stock and recommends execution exactly when |delta| > 1 % (else
\* the borrow-concern text).
C11_Describe ==
    Described =>
        /\ opp.signal = SELL =>
              /\ Det.type = "Reverse Conversion Arbitrage"
              /\ Det.positions = <<Leg("SELL", "Call", opp.C_mid),
                                   Leg("BUY", "Put", opp.P_mid),
                                   Leg("BUY", "underlying stock", F(opp.S))>>
              /\ Det.recommendation =
                    IF GapAbs > 50 THEN EXECUTE_REVERSE ELSE THIN_MARGIN
        /\ opp.signal = BUY =>
              /\ Det.type = "Conversion Arbitrage"
              /\ Det.positions = <<Leg("BUY", "Call", opp.C_mid),
                                   Leg("SELL", "Put", opp.P_mid),
                                   Leg("SELL (short)", "underlying stock", F(opp.S))>>
              /\ Det.recommendation =
                    IF GapAbs > 100 THEN EXECUTE_CONVERSION ELSE BORROW_CONCERN

\* a Buy-synthetic opportunity with 0.5 % < |delta| <= 1 % has been described
\* and execution is not recommended
C11_Witness ==
    /\ Described
    /\ opp.signal = BUY
    /\ GapAbs = 100
    /\ Det.recommendation = BORROW_CONCERN

\* ------------------------------------------------------------ claims: Surface Interpolator
Plotted == pc = "plotted"
Plt == plot[1]
Held == IF arbitrage_data = None THEN << >> ELSE arbitrage_data[1]
Strikes == { Held[i].K : i \in 1..Len(Held) }
Expiries == { Held[i].T : i \in 1..Len(Held) }
Sufficient ==
    Len(Held) >= 3 /\ Cardinality(Strikes) >= 2 /\ Cardinality(Expiries) >= 2
Reports == { NO_DATA, NO_ARBITRAGE_DATA, INSUFFICIENT_POINTS, NEED_TWO_BY_TWO }

\* C12: surface_plot builds a grid only when the opportunity batch has at
\* least 3 points, at least 2 distinct strikes and at least 2 distinct T (and
\* then, a surface being held, it does build it, over [min K, max K] x [min T,
\* max T]); in every other case it returns a message and builds no grid.
C12_GridOnlyWhenSufficient ==
    Plotted =>
        /\ Plt.meshgrid # None => Sufficient
        /\ ~Sufficient =>
              /\ Plt.meshgrid = None
              /\ ~Plt.figure
              /\ Plt.text \in Reports
        /\ (Sufficient /\ surface_data # None) =>
              /\ Plt.meshgrid # None
              /\ Plt.meshgrid[1].K_min < Plt.meshgrid[1].K_max
              /\ Plt.meshgrid[1].T_min < Plt.meshgrid[1].T_max
              /\ \A i \in 1..Len(Held) :
                    /\ Plt.meshgrid[1].K_min <= Held[i].K
                    /\ Held[i].K <= Plt.meshgrid[1].K_max
                    /\ Plt.meshgrid[1].T_min <= Held[i].T
                    /\ Held[i].T <= Plt.meshgrid[1].T_max

\* a batch of 3 points with 2 strikes and 1 expiry has been refused, with a
\* surface held
C12_Witness ==
    /\ Plotted
    /\ surface_data # None
    /\ Len(Held) = 3
    /\ Cardinality(Strikes) = 2
    /\ Cardinality(Expiries) = 1
    /\ Plt.text = NEED_TWO_BY_TWO
    /\ Plt.meshgrid = None

\* C13 as claimed: whenever the batch handed to surface_plot holds only 2
\* distinct strikes, the view reports insufficient data and builds no grid.
C13_AsClaimed ==
    (Plotted /\ Cardinality(Strikes) = 2) =>
        /\ Plt.meshgrid = None
        /\ ~Plt.figure
        /\ Plt.text \in Reports

\* C13 amended: with fewer than 2 distinct strikes in the batch the view
\* reports insufficient data and builds no grid; with exactly 2 distinct
\* strikes (and a surface held) it does so exactly when the batch has fewer
\* than 3 points or fewer than 2 distinct expiries, and builds the grid
\* otherwise.
C13_TwoStrikes ==
    Plotted =>
        /\ Cardinality(Strikes) < 2 =>
              /\ Plt.meshgrid = None
              /\ ~Plt.figure
              /\ Plt.text \in Reports
        /\ (Cardinality(Strikes) = 2 /\ surface_data # None) =>
              IF Len(Held) < 3 \/ Cardinality(Expiries) < 2
              THEN /\ Plt.meshgrid = None
                   /\ ~Plt.figure
                   /\ Plt.text \in {INSUFFICIENT_POINTS, NEED_TWO_BY_TWO}
              ELSE /\ Plt.meshgrid # None
                   /\ Plt.text \in {FIGURE, PLOT_ERROR}

\* a batch with exactly 2 distinct strikes has been drawn as a figure
C13_Witness ==
    /\ Plotted
    /\ Cardinality(Strikes) = 2
    /\ Plt.figure
    /\ Plt.meshgrid # None

\* ------------------------------------------------------------ claims: solver alone
Solved == pc \in {"solved", "found"}

\* S=100, K=95, T=0.5, C=8.00, P=0.50
Scenario ==
    pair = [K |-> 95 * PriceScale, T |-> TDen \div 2, S |-> 100 * PriceScale,
            C_mid |-> F(8 * PriceScale), P_mid |-> F(PriceScale \div 2)]

\* C14: for S=100, K=95, T=0.5, C=8.00, P=0.50, risk_free_rate=0.05 and
\* threshold=0.005 the implied rate exceeds the risk-free rate by less than
\* the threshold (it is 5.34 %, delta 0.34 %), and find_arbitrage returns no
\* opportunity.
C14_NearMiss ==
    (Scenario /\ input_risk_free_rate = 500 /\ input_arb_threshold = 50) =>
        /\ Solved =>
              /\ ~IsNaN(implied_app)
              /\ V(implied_app) - input_risk_free_rate > 0
              /\ V(implied_app) - input_risk_free_rate < input_arb_threshold
              /\ V(implied_app) \in {533, 534}
        /\ pc = "found" => arbitrage_data = Some(<< >>)

\* the scenario has been analysed
C14_Witness ==
    /\ Scenario
    /\ input_risk_free_rate = 500
    /\ input_arb_threshold = 50
    /\ pc = "found"
    /\ V(implied_app) - input_risk_free_rate \in 1..49
    /\ arbitrage_data = Some(<< >>)

InDomain(row) ==
    /\ row.T > 0
    /\ row.K > 0
    /\ FGt(FSub(F(row.S), FSub(row.C_mid, row.P_mid)), F(0))

WithCall(row, c) ==
    [K |-> row.K, T |-> row.T, S |-> row.S, C_mid |-> F(c), P_mid |-> row.P_mid]

\* C15: for a pair in the domain (T > 0, K > 0, S - (C - P) > 0) both solvers
\* return a rate, and for every larger call mid that stays in the domain, P,
\* S, K and T being the same, the rate either solver returns is strictly
\* larger.
C15_Monotone ==
    (Solved /\ InDomain(pair)) =>
        /\ ~IsNaN(implied_app)
        /\ implied_engine = Some(V(implied_app))
        /\ \A c \in CallMids :
              (c > V(pair.C_mid) /\ InDomain(WithCall(pair, c))) =>
                  /\ V(compute_implied_r(WithCall(pair, c))) > V(implied_app)
                  /\ engine_compute_implied_r(pair.S, F(c), pair.P_mid, pair.K,
                                              pair.T)[1] > implied_engine[1]

\* a pair in the domain has been solved for which the call mid one cent
\* higher is in the domain too
C15_Witness ==
    /\ Solved
    /\ InDomain(pair)
    /\ V(pair.C_mid) = 800
    /\ InDomain(WithCall(pair, 801))
    /\ V(compute_implied_r(WithCall(pair, 801))) > V(implied_app)

C19_NoStaleSpot ==
    last_spot_fetch = "failed" => (spot_price_data = None /\ spot_price = None)

\* ------------------------------------------------------------ claims: worker and client
Responded == pc \in {"responded", "returned"}
Resp == worker_response[1]

\* an exception is raised inside fetch: a provider call raises, or no row
\* with strike and expiry is left to unpack
UpstreamRaises ==
    \/ upstream.spot_raises
    \/ upstream.chain_raises
    \/ /\ upstream.chain # None
       /\ upstream.chain[1] # << >>
       /\ \A i \in 1..Len(upstream.chain[1]) :
             ~HasStrikeAndExpiry(upstream.chain[1][i])

EmptyChain == upstream.chain = None \/ upstream.chain[1] = << >>

\* C20: fetch always returns a dict with a success flag: success = False
\* with an error text on any exception, success = True with data = [] on an
\* empty chain; get_option_chain returns None when the request raises, on an
\* HTTP error, on a non-success response and on an empty row list, and the
\* DataFrame of the worker's rows only when the worker reported success with
\* at least one row.
C20_FailureIsAValue ==
    /\ Responded =>
          /\ Resp.success \in BOOLEAN
          /\ UpstreamRaises => (~Resp.success /\ Resp.error # None)
          /\ (~UpstreamRaises /\ EmptyChain) =>
                (Resp.success /\ Resp.data = << >>)
          /\ Resp.success = ~UpstreamRaises
    /\ pc = "returned" =>
          /\ http_response[1].raises => client_result = None
          /\ http_response[1].status >= 400 => client_result = None
          /\ ~Resp.success => client_result = None
          /\ Resp.data = << >> => client_result = None
          /\ client_result # None =>
                /\ Resp.success
                /\ Len(Resp.data) >= 1
                /\ http_response[1].status = 200
                /\ client_result = Some(Resp.data)

\* the worker failed on a chain whose rows all lack a strike or an expiry,
\* the response was delivered, and the client returned None
C20_Witness ==
    /\ pc = "returned"
    /\ ~upstream.spot_raises
    /\ ~upstream.chain_raises
    /\ UpstreamRaises
    /\ http_response[1].status = 200
    /\ ~Resp.success
    /\ client_result = None

\* the worker succeeded with an empty chain, the response was delivered, and
\* the client returned None
C20_WitnessEmpty ==
    /\ pc = "returned"
    /\ ~UpstreamRaises
    /\ EmptyChain
    /\ http_response[1].status = 200
    /\ Resp.success
    /\ client_result = None


\* ------------------------------------------------------------ session state
\* C21: after a chain fetch that got an answer, option_data holds the rows of
\* that answer alone and surface_data the surface of those rows (None when
\* the chain is empty); no row of an earlier fetch remains.
C21_OnlyNewestFetch ==
    option_data # None =>
       /\ Chain \in ServerBatches \cup {<< >>}
       /\ Chain = << >> => surface_data = None
       /\ Chain # << >> =>
             /\ surface_data # None
             /\ \E spot \in ServerSpots : Surf = build_surface_df(Chain, spot)

\* a one-row chain is held with its surface, and the opportunities found in
\* an earlier chain of more rows are still there: that chain was replaced
C21_Witness ==
    /\ option_data # None
    /\ Len(Chain) = 1
    /\ surface_data # None
    /\ arbitrage_data # None
    /\ Arb # << >>

\* an empty chain replaced a chain that had opportunities
C21_WitnessEmpty ==
    /\ option_data = Some(<< >>)
    /\ surface_data = None
    /\ arbitrage_data # None
    /\ Arb # << >>

\* C22: every analysis request that finds a surface replaces arbitrage_data
\* with exactly analyze_arbitrage of the surface held, at the rate and the
\* threshold entered, and clears the selection; a request that finds no
\* surface changes neither; no other step writes arbitrage_data.
C22_AnalysisReplaces ==
    [][ (AnalyzeArbitrage \/ arbitrage_data' # arbitrage_data) =>
           IF surface_data = None
           THEN UNCHANGED <<arbitrage_data, selected_arb_row>>
           ELSE /\ arbitrage_data' =
                      Some(analyze_arbitrage(Surf, input_risk_free_rate,
                                             input_arb_threshold))
                /\ selected_arb_row' = None ]_vars

\* an analysis found one opportunity and holds nothing else, while the
\* browser still shows the two rows of the analysis before it
C22_Witness ==
    /\ last_analysis = "done"
    /\ arbitrage_data # None
    /\ Len(Arb) = 1
    /\ shown_rows = 2
    /\ selected_arb_row = None

\* an analysis was requested with no surface held: the opportunities and
\* the selection of before are still there
C22_WitnessIgnored ==
    /\ last_analysis = "ignored"
    /\ surface_data = None
    /\ arbitrage_data # None
    /\ selected_arb_row # None

\* C23: in every reachable state the opportunities held were derived from
\* the quote batch currently held in surface_data, never from an earlier one:
\* they are analyze_arbitrage of that surface at some rate and threshold.
C23_DerivedFromHeldBatch ==
    arbitrage_data # None =>
       /\ surface_data # None
       /\ \E rf \in Rates, th \in Thresholds :
             Arb = analyze_arbitrage(Surf, rf, th)

\* C24: whenever no row is selected, or arbitrage_data is None or empty,
\* strategy_details and calculator_interface show their placeholder and make
\* no breakdown and no report; whenever surface_data is None, or
\* arbitrage_data is None or empty, the 3-D view shows a placeholder and
\* interpolates nothing.
C24_ViewsDegrade ==
    /\ (selected_arb_row = None \/ arbitrage_data = None \/ Arb = << >>) =>
          /\ strategy_details = [shown |-> "placeholder", text |-> CLICK_A_ROW]
          /\ calculator_interface = [shown |-> "placeholder", text |-> NO_STRATEGY]
    /\ (surface_data = None \/ arbitrage_data = None \/ Arb = << >>) =>
          /\ ~surface_view.figure
          /\ surface_view.meshgrid = None
          /\ surface_view.text \in {NO_DATA, NO_ARBITRAGE_DATA}

\* a row is selected while the analysis held found nothing, and no surface
\* is held: the three views show their placeholders
C24_Witness ==
    /\ selected_arb_row # None
    /\ arbitrage_data # None
    /\ Arb = << >>
    /\ surface_data = None
    /\ strategy_details.shown = "placeholder"
    /\ calculator_interface.shown = "placeholder"
    /\ surface_view.text = NO_DATA

\* C25: whenever a row is selected, the selection is a valid position of the
\* opportunities held (0 <= index < number of opportunities), under every
\* interleaving of analysis requests and row-selection events.
C25_SelectionValid ==
    selected_arb_row # None =>
       /\ arbitrage_data # None
       /\ 0 <= selected_arb_row[1]
       /\ selected_arb_row[1] < Len(Arb)

\* C26: in every execution report shown, rate_diff equals implied_rate minus
\* the risk_free_rate of that report, after any sequence of analyses, rate
\* entries, row selections and calculator updates.
C26_RateDiffConsistent ==
    calculator_interface.shown = "report" =>
       calculator_interface.results.rate_diff =
          calculator_interface.results.implied_rate
             - calculator_interface.results.risk_free_rate

\* ------------------------------------------------------------ opportunities costed
Estimated == pc = "estimated"

\* C27: for every opportunity find_arbitrage emits with threshold >= 0, and
\* contracts >= 1, the theoretical profit of its report is strictly positive
\* in both branches, and worst_case < theoretical_profit < best_case.
C27_ProfitPositive ==
    (Estimated /\ input_arb_threshold >= 0 /\ calc_contracts >= 1) =>
        /\ Rep.theoretical_profit > 0
        /\ Rep.worst_case < Rep.theoretical_profit
        /\ Rep.theoretical_profit < Rep.best_case

\* a Conversion opportunity (implied rate below the benchmark) found at
\* threshold 0 has been costed
C27_Witness ==
    /\ Estimated
    /\ input_arb_threshold = 0
    /\ opp.signal = BUY
    /\ V(opp.r_diff) < 0
    /\ Rep.theoretical_profit > 0

\* a Reverse Conversion opportunity has been costed for one contract
C27_WitnessReverse ==
    /\ Estimated
    /\ opp.signal = SELL
    /\ calc_contracts = 1
    /\ Rep.theoretical_profit > 0

\* C28: for every Reverse Conversion opportunity find_arbitrage emits, with
\* contracts >= 1, C >= 0, P >= 0, commission >= 0 and slippage >= 0, the
\* capital employed is strictly positive, so roi is the quotient
\* theoretical_profit / capital_employed * 100 and not the zero fallback.
C28_CapitalPositive ==
    ( /\ Estimated
      /\ opp.signal = SELL
      /\ calc_contracts >= 1
      /\ V(opp.C_mid) >= 0
      /\ V(opp.P_mid) >= 0
      /\ calc_commission >= 0
      /\ calc_slippage_pct >= 0 ) =>
        /\ Rep.capital_employed > 0
        /\ Rep.roi = F(PctOf(Rep.theoretical_profit, Rep.capital_employed))
        /\ V(Rep.roi) > 0

\* a Reverse Conversion opportunity has been costed with no commission and
\* no slippage: the capital employed is the stock less the option credit
C28_Witness ==
    /\ Estimated
    /\ opp.signal = SELL
    /\ calc_commission = 0
    /\ calc_slippage_pct = 0
    /\ Rep.capital_employed = Rep.stock_value - Rep.option_net
    /\ Rep.capital_employed > 0

\* ------------------------------------------------------------ costs and the report
\* the report for the same row, contracts and rate at other costs
AtCosts(commission, slippage_pct) ==
    calculate_execution_costs(opp, calc_contracts, commission, slippage_pct,
                              calc_rate)

\* C29: with the row, the contract count and the rate the same, net_pnl
\* never increases when commission_per_leg or slippage_pct increases, in both
\* branches, and theoretical_profit, best_case and worst_case do not depend
\* on either.
C29_CostsOnlyLower ==
    Reported =>
        \A commission \in {0, 500, 501}, slippage_pct \in {0, 5, 6} :
           /\ (commission >= calc_commission /\ slippage_pct >= calc_slippage_pct)
                 => AtCosts(commission, slippage_pct).net_pnl <= Rep.net_pnl
           /\ AtCosts(commission, slippage_pct).theoretical_profit
                 = Rep.theoretical_profit
           /\ AtCosts(commission, slippage_pct).best_case = Rep.best_case
           /\ AtCosts(commission, slippage_pct).worst_case = Rep.worst_case

\* a Conversion report made without costs whose net_pnl is strictly lower
\* with a commission and with slippage
C29_Witness ==
    /\ Reported
    /\ calc_contracts >= 1
    /\ opp.signal = BUY
    /\ calc_commission = 0
    /\ calc_slippage_pct = 0
    /\ AtCosts(500, 0).net_pnl < Rep.net_pnl
    /\ AtCosts(0, 5).net_pnl < Rep.net_pnl

\* the same in the Reverse Conversion branch
C29_WitnessReverse ==
    /\ Reported
    /\ calc_contracts >= 1
    /\ opp.signal = SELL
    /\ calc_commission = 0
    /\ calc_slippage_pct = 0
    /\ AtCosts(500, 0).net_pnl < Rep.net_pnl
    /\ AtCosts(0, 5).net_pnl < Rep.net_pnl

\* ------------------------------------------------------------ the two solvers
\* the signal analyze_arbitrage gives the pair, NOSIGNAL when it emits none
AppSignalOf(ij) ==
    IF Emitted(ij) = {} THEN NOSIGNAL
    ELSE Arb[CHOOSE k \in Emitted(ij) : TRUE].signal

\* the signal analyze_chain gives the pair, NOSIGNAL when it emits none
EngineSignalOf(ij) ==
    IF ChainEmitted(ij) = {} THEN NOSIGNAL
    ELSE chain_signals[1][CHOOSE k \in ChainEmitted(ij) : TRUE].signal

\* decision_engine.compute_implied_r on the pair
EngineRate(ij) ==
    engine_compute_implied_r(Surf[ij[1]].S, Surf[ij[1]].mid, Surf[ij[2]].mid,
                             Surf[ij[1]].K, Surf[ij[1]].T)

\* C30 as claimed: for the same pair, base rate and threshold the two
\* solvers give the same signal or both none, and app.compute_implied_r is
\* defined exactly when decision_engine.compute_implied_r is.
C30_AsClaimed ==
    pc = "done" =>
        \A ij \in ChainPairs :
            /\ AppSignalOf(ij) = EngineSignalOf(ij)
            /\ IsNaN(PairRate(ij)) <=> (EngineRate(ij) = None)

\* C30 amended: for the same pair and base rate and a threshold >= 0 the two
\* solvers give the same signal or both none; app.compute_implied_r is
\* defined exactly when decision_engine.compute_implied_r is.
C30_AgreeFromZero ==
    pc = "done" =>
        \A ij \in ChainPairs :
            /\ input_arb_threshold >= 0 => AppSignalOf(ij) = EngineSignalOf(ij)
            /\ IsNaN(PairRate(ij)) <=> (EngineRate(ij) = None)

\* at a threshold >= 0 both solvers have given a pair the same signal
C30_Witness ==
    /\ pc = "done"
    /\ input_arb_threshold >= 0
    /\ \E ij \in ChainPairs :
          /\ AppSignalOf(ij) = SELL
          /\ EngineSignalOf(ij) = SELL

\* both solvers have left a pair without a rate, and without a signal
C30_WitnessUndefined ==
    /\ pc = "done"
    /\ \E ij \in ChainPairs :
          /\ IsNaN(PairRate(ij))
          /\ EngineRate(ij) = None
          /\ AppSignalOf(ij) = NOSIGNAL
          /\ EngineSignalOf(ij) = NOSIGNAL

=============================================================================
